---- MODULE Spec2Model ----
(***************************************************************************)
(* h5.modbus.inode: a gateway that exposes iNode BLE advertising reports   *)
(* as MODBUS holding registers.                                            *)
(*                                                                         *)
(* The repository holds two revisions of the Gateway/Device pair:          *)
(*   variant "A": the event-emitting Gateway (getDevice, listeners,        *)
(*                unknownDeviceHandler) with the Device that owns its      *)
(*                deviceTimeout option;                                    *)
(*   variant "B": the Gateway that owns the deviceTimeout option with the  *)
(*                Device of lib/Device.js (isAvailable(deviceTimeout)).    *)
(* Both are modelled; `variant` is chosen at construction and never        *)
(* changes.                                                                *)
(*                                                                         *)
(* Strings are sequences of one-character strings.  A JavaScript object    *)
(* is a function whose DOMAIN is the set of its defined keys.              *)
(***************************************************************************)
EXTENDS Integers, Sequences, FiniteSets, TLC

\* ------------------------------------------------------------------ bounds
\* The wall clock starts at StartTime and is followed for MaxElapsed ms.
StartTime == 100000
MaxElapsed == 20001
\* The single-device specification applies up to MaxReports reports.
MaxReports == 3

\* ------------------------------------------------------- program constants
UnitMax == 255
DefaultDeviceTimeout == 20000
ReadHoldingRegisters == 3

Variants == {"A", "B"}

\* ---------------------------------------------------------------- strings
HexUpper == {"0","1","2","3","4","5","6","7","8","9","A","B","C","D","E","F"}
LowerLetters == <<"a","b","c","d","e","f","g","h","i","j","k","l","m",
                  "n","o","p","q","r","s","t","u","v","w","x","y","z">>
UpperLetters == <<"A","B","C","D","E","F","G","H","I","J","K","L","M",
                  "N","O","P","Q","R","S","T","U","V","W","X","Y","Z">>

toUpperCaseChar(c) ==
  IF \E k \in 1 .. Len(LowerLetters) : LowerLetters[k] = c
    THEN UpperLetters[CHOOSE k \in 1 .. Len(LowerLetters) : LowerLetters[k] = c]
    ELSE c

toUpperCase(s) == [k \in 1 .. Len(s) |-> toUpperCaseChar(s[k])]

\* String.prototype.match with /([A-F0-9]{1,2})(?:-|:)?/g : the successive
\* leftmost matches, each one or two hex digits (greedy) and an optional
\* trailing separator; characters that start no match are skipped.
RECURSIVE MacMatches(_, _)
MacMatches(s, i) ==
  IF i > Len(s) THEN <<>>
  ELSE IF s[i] \in HexUpper
    THEN LET n == IF i + 1 <= Len(s) /\ s[i + 1] \in HexUpper THEN 2 ELSE 1
             j == i + n
             e == IF j <= Len(s) /\ s[j] \in {"-", ":"} THEN j + 1 ELSE j
         IN  <<SubSeq(s, i, e - 1)>> \o MacMatches(s, e)
    ELSE MacMatches(s, i + 1)

\* m.replace(/[^A-F0-9]/g, '') followed by the left pad with '0'
MacGroup(m) ==
  LET digits == SelectSeq(m, LAMBDA c : c \in HexUpper)
  IN  IF Len(digits) = 1 THEN <<"0">> \o digits ELSE digits

RECURSIVE JoinColon(_)
JoinColon(groups) ==
  IF Len(groups) = 0 THEN <<>>
  ELSE IF Len(groups) = 1 THEN groups[1]
  ELSE groups[1] \o <<":">> \o JoinColon(Tail(groups))

\* mutation of prepareMacAddress: the address is matched without being
\* converted to upper case first
prepareMacAddress_CaseSensitive(macAddress) ==
  LET matches == MacMatches(macAddress, 1)
  IN  IF Len(matches) # 6
        THEN [err |-> TRUE, mac |-> <<>>]
        ELSE [err |-> FALSE,
              mac |-> JoinColon([k \in 1 .. 6 |-> MacGroup(matches[k])])]

\* helpers.prepareMacAddress: [err |-> TRUE] stands for the thrown Error
prepareMacAddress(macAddress) ==
  LET matches == MacMatches(toUpperCase(macAddress), 1)
  IN  IF Len(matches) # 6
        THEN [err |-> TRUE, mac |-> <<>>]
        ELSE [err |-> FALSE,
              mac |-> JoinColon([k \in 1 .. 6 |-> MacGroup(matches[k])])]

\* ------------------------------------------------ the devices of the model
\* Raw MAC addresses as a caller may spell them.
RawMacLowerHyphen == <<"0","0","-","1","2","-","6","f","-","6","d","-","3","e","-","0","6">>
RawMacPlain == <<"0","0","1","2","6","F","6","D","3","E","0","6">>
RawMacColon == <<"0","0",":","1","2",":","6","F",":","6","D",":","3","C",":","5","5">>

\* Arguments of `new Device(mac, unit, options)` for the device objects of
\* the model: devices 1 and 2 spell the same MAC differently and differ in
\* unit, devices 1 and 3 share the unit and differ in MAC.  A deviceTimeout
\* of 0 stands for an option that was not given.
CtorArgs ==
  << [mac |-> RawMacLowerHyphen, unit |-> 1, deviceTimeout |-> 0],
     [mac |-> RawMacPlain, unit |-> 2, deviceTimeout |-> 1],
     [mac |-> RawMacColon, unit |-> 1, deviceTimeout |-> 0] >>

DevIds == DOMAIN CtorArgs

\* ------------------------------------------------------ JavaScript values
\* A value is [t |-> typeof-like tag, v |-> payload].  Numbers carry their
\* value in hundredths (21.34 is Num(2134), -70 is Num(-7000)); a Date
\* carries its millisecond timestamp; an object carries a function from its
\* keys to values.
Undefined == [t |-> "undefined", v |-> 0]
Null == [t |-> "null", v |-> 0]
Num(h) == [t |-> "number", v |-> h]
NumInt(n) == [t |-> "number", v |-> 100 * n]
Bool(b) == [t |-> "boolean", v |-> b]
Str(s) == [t |-> "string", v |-> s]
Obj(f) == [t |-> "object", v |-> f]
Date(ms) == [t |-> "date", v |-> ms]
True == Bool(TRUE)
EmptyObject == [k \in {} |-> Undefined]

\* obj[key] on a plain key/value function
Get(f, key) == IF key \in DOMAIN f THEN f[key] ELSE Undefined

\* obj[key] = value
Put(f, key, value) == [k \in DOMAIN f \cup {key} |-> IF k = key THEN value ELSE f[k]]

\* typeof x === 'object' && x !== null
IsObject(x) == x.t \in {"object", "date"}
IsNumber(x) == x.t = "number"

\* x[key] for an arbitrary value x; Object.keys(x)
Prop(x, key) == IF x.t = "object" THEN Get(x.v, key) ELSE Undefined
Keys(x) == IF x.t = "object" THEN DOMAIN x.v ELSE {}

\* a === b for operands of which at least one is a primitive
StrictEq(a, b) == a.t = b.t /\ a.t \notin {"object", "date"} /\ a.v = b.v

\* ToBoolean
Truthy(x) ==
  CASE x.t = "undefined" -> FALSE
    [] x.t = "null" -> FALSE
    [] x.t = "boolean" -> x.v
    [] x.t = "number" -> x.v # 0
    [] x.t = "string" -> Len(x.v) > 0
    [] OTHER -> TRUE

\* Truncation toward zero of a number given in hundredths (ToInt32/ToUint8
\* conversions of the Buffer stores); NaN (a non-number) converts to 0.
TruncHundredths(h) == IF h >= 0 THEN h \div 100 ELSE -((-h) \div 100)
ToInteger(x) == IF x.t = "number" THEN TruncHundredths(x.v) ELSE 0

\* ------------------------------------------------------------ DeviceModel
\* iNodeHci.DeviceModel: the codes are set by the external decoder; distinct
\* positive integers stand for them.
DeviceModelNames ==
  << "CareRelay", "EnergyMeter", "CareSensor1", "CareSensor2", "CareSensor3",
     "CareSensor4", "CareSensor5", "CareSensor6", "CareSensorT", "CareSensorHT",
     "CareSensorPT", "CareSensorPHT" >>

DeviceModel(name) ==
  NumInt(CHOOSE k \in 1 .. Len(DeviceModelNames) : DeviceModelNames[k] = name)

CareSensorModelsA ==
  { DeviceModel(n) : n \in {"CareSensor1", "CareSensor2", "CareSensor3", "CareSensor4",
                            "CareSensor5", "CareSensor6", "CareSensorT", "CareSensorHT",
                            "CareSensorPT", "CareSensorPHT"} }
CareSensorModelsB ==
  { DeviceModel(n) : n \in {"CareSensor1", "CareSensor2", "CareSensor3", "CareSensor4",
                            "CareSensor5", "CareSensor6", "CareSensorT", "CareSensorHT"} }

\* the case labels of the `switch (msd.model)` / `switch (this.model)`
\* statements that dispatch to the CareSensor handlers
CareSensorModels(v) == IF v = "A" THEN CareSensorModelsA ELSE CareSensorModelsB

\* members of a set of primitive values, by ===
IsOneOf(x, S) == \E m \in S : StrictEq(x, m)

\* ----------------------------------------------------------------- Device
\* new Device(mac, unit, options): [err |-> TRUE] stands for the thrown Error.
\* Variant B's constructor takes no options.
Device(v, mac, unit, deviceTimeout) ==
  IF unit < 0 \/ unit > UnitMax
    THEN [err |-> TRUE, dev |-> <<>>]
    ELSE LET prepared == prepareMacAddress(mac)
         IN  IF prepared.err
               THEN [err |-> TRUE, dev |-> <<>>]
               ELSE [err |-> FALSE,
                     dev |-> [mac |-> prepared.mac,
                              unit |-> unit,
                              deviceTimeout |->
                                IF v = "A"
                                  THEN (IF deviceTimeout # 0 THEN deviceTimeout
                                                             ELSE DefaultDeviceTimeout)
                                  ELSE 0,
                              lastSeenAt |-> 0,
                              hasBuffer |-> FALSE,
                              buffer |-> <<>>,
                              model |-> Null,
                              state |-> EmptyObject,
                              changes |-> EmptyObject]]

\* mutation of isAvailable: the age of the last report is not looked at
isAvailable_NeverStale(v, d, deviceTimeout, clock) == d.model.t # "null"

\* Device.isAvailable: variant A reads this.deviceTimeout, variant B its
\* argument; `clock` is Date.now()
isAvailable(v, d, deviceTimeout, clock) ==
  LET timeout == IF v = "A" THEN d.deviceTimeout ELSE deviceTimeout
  IN  IF d.model.t = "null" THEN FALSE
      ELSE IF clock - d.lastSeenAt > timeout THEN FALSE
      ELSE TRUE

\* Device.changeStateObject
changeStateObject(d, stateProperty, newObject, oldObject) ==
  IF \E key \in Keys(newObject) : ~StrictEq(Prop(newObject, key), Prop(oldObject, key))
    THEN [d EXCEPT !.changes = Put(@, stateProperty, newObject)]
    ELSE d

\* Device.changeState
changeState(d, stateProperty, newValue) ==
  IF newValue.t = "undefined" THEN d
  ELSE LET oldValue == Get(d.state, stateProperty)
       IN  IF IsObject(newValue)
             THEN IF oldValue.t \in {"null", "undefined"}
                    THEN [d EXCEPT !.changes = Put(@, stateProperty, newValue)]
                    ELSE changeStateObject(d, stateProperty, newValue, oldValue)
             ELSE IF ~StrictEq(newValue, oldValue)
                    THEN [d EXCEPT !.changes = Put(@, stateProperty, newValue)]
                    ELSE d

\* Device.changeModel
changeModel(d, newModel) ==
  IF StrictEq(newModel, d.model) THEN d
  ELSE [d EXCEPT !.model = newModel,
                 !.changes = [k \in {"model", "rssi", "localName", "txPowerLevel"} |->
                                IF k = "model" THEN newModel ELSE Get(d.changes, k)]]

\* MSD_PROPERTIES and the handle*Msd methods: the state properties compared
\* for a model, in the order the code compares them
MsdProperties(v, model) ==
  IF StrictEq(model, DeviceModel("CareRelay")) THEN <<"output">>
  ELSE IF StrictEq(model, DeviceModel("EnergyMeter"))
    THEN (IF v = "A" THEN <<"unit", "constant", "sum", "average">>
                     ELSE <<"sum", "average", "unit", "constant">>)
  ELSE IF IsOneOf(model, CareSensorModels(v))
    THEN (IF v = "A"
            THEN <<"input", "output", "position", "temperature", "humidity",
                   "pressure", "batteryLevel", "batteryVoltage", "groups", "time">>
            ELSE <<"time", "groups", "batteryLevel", "batteryVoltage", "input",
                   "output", "position", "temperature", "humidity">>)
  ELSE <<>>

\* Device.compareStateProperties
RECURSIVE compareStateProperties(_, _, _)
compareStateProperties(d, msd, properties) ==
  IF Len(properties) = 0 THEN d
  ELSE compareStateProperties(changeState(d, Head(properties), Get(msd, Head(properties))),
                              msd, Tail(properties))

\* Device.handleEirManufacturerSpecificData
handleEirManufacturerSpecificData(v, d, msd) ==
  LET d1 == changeModel(d, Get(msd, "model"))
      d2 == changeState(d1, "rtto", Get(msd, "rtto"))
      d3 == changeState(d2, "alarms", Get(msd, "alarms"))
  IN  compareStateProperties(d3, msd, MsdProperties(v, Get(msd, "model")))

\* Device.handleEirDataStructure: an EIR structure is [type, props]
handleEirDataStructure(v, d, eir) ==
  CASE eir.type = "LocalNameComplete" -> changeState(d, "localName", Get(eir.props, "value"))
    [] eir.type = "TxPowerLevel" -> changeState(d, "txPowerLevel", Get(eir.props, "value"))
    [] eir.type = "ManufacturerSpecificData" -> handleEirManufacturerSpecificData(v, d, eir.props)
    [] OTHER -> d

\* report.data.forEach(this.handleEirDataStructure)
RECURSIVE handleEirData(_, _, _)
handleEirData(v, d, data) ==
  IF Len(data) = 0 THEN d
  ELSE handleEirData(v, handleEirDataStructure(v, d, Head(data)), Tail(data))

\* ----------------------------------------------------------------- Buffer
\* Character codes of the characters local names are made of.
Digits == <<"0","1","2","3","4","5","6","7","8","9">>
IndexIn(seq, c) == CHOOSE k \in 1 .. Len(seq) : seq[k] = c
charCodeAt(c) ==
  IF \E k \in 1 .. Len(Digits) : Digits[k] = c THEN 47 + IndexIn(Digits, c)
  ELSE IF \E k \in 1 .. Len(UpperLetters) : UpperLetters[k] = c THEN 64 + IndexIn(UpperLetters, c)
  ELSE IF \E k \in 1 .. Len(LowerLetters) : LowerLetters[k] = c THEN 96 + IndexIn(LowerLetters, c)
  ELSE 63

\* parseInt(hex, 16) of a two-digit group of a canonical MAC address
HexDigits == <<"0","1","2","3","4","5","6","7","8","9","A","B","C","D","E","F">>
parseHex(group) == 16 * (IndexIn(HexDigits, group[1]) - 1) + (IndexIn(HexDigits, group[2]) - 1)

\* buf[offset] = value on a Buffer (a Uint8Array): the value is reduced
\* modulo 256 and a store beyond the end is dropped.  Index 0 of the code is
\* index 1 of the sequence.
SetByte(buf, offset, value) ==
  IF offset >= 0 /\ offset < Len(buf) THEN [buf EXCEPT ![offset + 1] = value % 256] ELSE buf

\* buffer.writeUInt16BE / writeInt16BE (value, offset, noAssert = true) with
\* an integer value: the two low-order bytes, big-endian, no range check
writeInt16BE(buf, value, offset) ==
  SetByte(SetByte(buf, offset, (value % 65536) \div 256), offset + 1, value % 256)

writeUInt16BE(buf, value, offset) == writeInt16BE(buf, value, offset)

\* buffer.writeUInt32BE(value, offset, true): the four low-order bytes,
\* big-endian (the floor divisions give the two's-complement bytes)
writeUInt32BE(buf, value, offset) ==
  SetByte(SetByte(SetByte(SetByte(buf,
    offset, (value \div 16777216) % 256),
    offset + 1, (value \div 65536) % 256),
    offset + 2, (value \div 256) % 256),
    offset + 3, value % 256)

\* buffer.write(string, offset): one byte per character, as many as fit
RECURSIVE writeString(_, _, _)
writeString(buf, str, offset) ==
  IF Len(str) = 0 \/ offset >= Len(buf) THEN buf
  ELSE writeString(SetByte(buf, offset, charCodeAt(Head(str))), Tail(str), offset + 1)

\* mutation of substring0: the whole string is taken
substring0_Whole(str, n) == str

\* string.substring(0, n)
substring0(str, n) == SubSeq(str, 1, IF Len(str) < n THEN Len(str) ELSE n)

\* ------------------------------------------------------ number coercions
\* ToNumber in hundredths; NaN is [nan |-> TRUE]
ToNumber(x) ==
  CASE x.t = "number" -> [nan |-> FALSE, h |-> x.v]
    [] x.t = "boolean" -> [nan |-> FALSE, h |-> IF x.v THEN 100 ELSE 0]
    [] x.t = "null" -> [nan |-> FALSE, h |-> 0]
    [] x.t = "date" -> [nan |-> FALSE, h |-> 100 * x.v]
    [] x.t = "string" /\ Len(x.v) = 0 -> [nan |-> FALSE, h |-> 0]
    [] OTHER -> [nan |-> TRUE, h |-> 0]

\* the integer a Buffer store makes of `x` (NaN stores 0)
StoreInt(x) == LET n == ToNumber(x) IN IF n.nan THEN 0 ELSE TruncHundredths(n.h)

\* the integer a Buffer store makes of Math.round(x)
StoreRound(x) == LET n == ToNumber(x) IN IF n.nan THEN 0 ELSE (n.h + 50) \div 100

\* the integer a Buffer store makes of Math.round(x * 100)
StoreRoundTimes100(x) == LET n == ToNumber(x) IN IF n.nan THEN 0 ELSE n.h

\* x || 0
OrZero(x) == IF Truthy(x) THEN x ELSE NumInt(0)

\* mutation of NumberOrFF: a missing number is taken as 0
NumberOrFF_Zero(x) == IF IsNumber(x) THEN x ELSE NumInt(0)

\* typeof x === 'number' ? x : 0x00FF
NumberOrFF(x) == IF IsNumber(x) THEN x ELSE NumInt(255)

\* -------------------------------------------------------- register image
MSD_FIRST_REGISTER_INDEX == 32

Zeros(n) == [k \in 1 .. n |-> 0]

\* the six two-digit groups of a canonical MAC address: mac.split(':')
MacGroups(mac) == [k \in 1 .. 6 |-> SubSeq(mac, 3 * k - 2, 3 * k - 1)]

\* the model extension resetBuffer adds to the 32 header bytes
ExtensionLength(v, model) ==
  IF StrictEq(model, DeviceModel("CareRelay")) THEN 2
  ELSE IF StrictEq(model, DeviceModel("EnergyMeter"))
    THEN (IF v = "A" THEN 2 + 2 + 4 + 4 + 2 + 2 + 4 + 2 + 2
                     ELSE 2 + 2 + 2 + 2 + 2 + 2 + 2 + 2 + 2 + 4)
  ELSE IF IsOneOf(model, CareSensorModelsB)
    THEN (IF v = "A" THEN 2 + 2 + 2 + 2 + 2 + 2 + 2 + 2 + 2 + 2 + 4
                     ELSE 2 + 2 + 4 + 4)
  ELSE 0

\* Device.resetBuffer: the freshly allocated, zero-filled buffer with the MAC
\* bytes and the model code
resetBuffer(v, d) ==
  LET bufferLength == 6 + 16 + 2 + 2 + 2 + 2 + 2 + ExtensionLength(v, d.model)
      groups == MacGroups(d.mac)
      withMac == [k \in 1 .. bufferLength |->
                    IF k <= 6 THEN parseHex(groups[k]) ELSE 0]
  IN  writeUInt16BE(withMac, StoreInt(d.model), 22)

AlarmNames ==
  << "lowBattery", "moveAccelerometer", "levelAccelerometer", "levelTemperature",
     "levelHumidity", "contactChange", "moveStopped", "moveGTimer",
     "levelAccelerometerChange", "levelMagnetChange", "levelMagnetTimer" >>

RECURSIVE Pow2(_)
Pow2(n) == IF n = 0 THEN 1 ELSE 2 * Pow2(n - 1)

RECURSIVE AlarmBits(_, _)
AlarmBits(alarms, k) ==
  IF k > Len(AlarmNames) THEN 0
  ELSE (IF Truthy(Prop(alarms, AlarmNames[k])) THEN Pow2(k - 1) ELSE 0)
       + AlarmBits(alarms, k + 1)

\* Device.writeAlarms
writeAlarms(state, buf, i) == writeUInt16BE(buf, AlarmBits(Get(state, "alarms"), 1), i)

\* modelChanged || changes[key]
Changed(changes, key) == Truthy(Get(changes, "model")) \/ Truthy(Get(changes, key))

\* Device.writeCareRelay
writeCareRelay(state, buf) ==
  writeUInt16BE(buf, IF Truthy(Get(state, "output")) THEN 2 ELSE 0, MSD_FIRST_REGISTER_INDEX)

\* `if (modelChanged || changes[key]) buffer.write*(value, offset, true)`
WhenChanged16(changes, key, buf, value, offset) ==
  IF Changed(changes, key) THEN writeUInt16BE(buf, value, offset) ELSE buf

WhenChanged32(changes, key, buf, value, offset) ==
  IF Changed(changes, key) THEN writeUInt32BE(buf, value, offset) ELSE buf

\* Device.writeEnergyMeter of variant A
writeEnergyMeterA(state, changes, buf) ==
  WhenChanged16(changes, "batteryVoltage",
  WhenChanged16(changes, "batteryLevel",
  WhenChanged32(changes, "weekDayTotal",
  WhenChanged16(changes, "weekDay",
  WhenChanged16(changes, "lightLevel",
  WhenChanged32(changes, "average",
  WhenChanged32(changes, "sum",
  WhenChanged16(changes, "unit",
  WhenChanged16(changes, "constant", buf,
    StoreInt(Get(state, "constant")), MSD_FIRST_REGISTER_INDEX),
    StoreInt(Get(state, "unit")), MSD_FIRST_REGISTER_INDEX + 2),
    StoreRoundTimes100(Get(state, "sum")), MSD_FIRST_REGISTER_INDEX + 4),
    StoreRoundTimes100(Get(state, "average")), MSD_FIRST_REGISTER_INDEX + 8),
    StoreRoundTimes100(Get(state, "lightLevel")), MSD_FIRST_REGISTER_INDEX + 12),
    StoreInt(OrZero(Get(changes, "weekDay"))), MSD_FIRST_REGISTER_INDEX + 14),
    StoreInt(OrZero(Get(changes, "weekDayTotal"))), MSD_FIRST_REGISTER_INDEX + 16),
    StoreRound(OrZero(Get(state, "batteryLevel"))), MSD_FIRST_REGISTER_INDEX + 20),
    StoreRoundTimes100(NumberOrFF(Get(state, "batteryVoltage"))), MSD_FIRST_REGISTER_INDEX + 22)

\* Device.writeEnergyMeter of variant B
writeEnergyMeterB(state, changes, buf) ==
  WhenChanged32(changes, "average",
  WhenChanged32(changes, "sum",
  WhenChanged16(changes, "unit",
  WhenChanged16(changes, "constant", buf,
    StoreInt(Get(state, "constant")), 32),
    StoreInt(Get(state, "unit")), 34),
    StoreRoundTimes100(Get(state, "sum")), 36),
    StoreRoundTimes100(Get(state, "average")), 40)

\* the flags register of writeCareSensor
CareSensorFlags(state) ==
  (IF Truthy(Get(state, "input")) \/ Truthy(Get(state, "magneticFieldDirection")) THEN 1 ELSE 0)
  + (IF Truthy(Get(state, "output")) THEN 2 ELSE 0)
  + (IF Truthy(Prop(Get(state, "position"), "motion")) THEN 4 ELSE 0)

\* state.time ? state.time.getTime() : 0 throws a TypeError for a truthy
\* value that is no Date
TimeThrows(state) == Truthy(Get(state, "time")) /\ Get(state, "time").t # "date"

\* Math.round(time / 1000) of the millisecond timestamp
TimeSeconds(state) ==
  IF Truthy(Get(state, "time")) /\ Get(state, "time").t = "date"
    THEN (Get(state, "time").v + 500) \div 1000
    ELSE 0

\* the three position registers of writeCareSensor, from offset i
writePosition(position, buf, i) ==
  writeInt16BE(writeInt16BE(writeInt16BE(buf,
    StoreInt(OrZero(Prop(position, "x"))), i),
    StoreInt(OrZero(Prop(position, "y"))), i + 2),
    StoreInt(OrZero(Prop(position, "z"))), i + 4)

\* the last statement of writeCareSensor: the time registers at offset i.
\* The result is [threw, buf].
writeTime(state, changes, buf, i) ==
  IF ~Changed(changes, "time") THEN [threw |-> FALSE, buf |-> buf]
  ELSE IF TimeThrows(state) THEN [threw |-> TRUE, buf |-> buf]
  ELSE [threw |-> FALSE, buf |-> writeUInt32BE(buf, TimeSeconds(state), i)]

\* the humidity register of variant A's writeCareSensor
Value2(state) ==
  IF IsNumber(Get(state, "humidity")) THEN StoreRoundTimes100(Get(state, "humidity"))
  ELSE IF IsNumber(Get(state, "magneticField")) THEN StoreInt(Get(state, "magneticField"))
  ELSE 255 * 100

\* Math.round(typeof state.pressure === 'number' ? state.pressure * 16 : 0)
Pressure16(state) ==
  IF IsNumber(Get(state, "pressure")) THEN (16 * Get(state, "pressure").v + 50) \div 100 ELSE 0

\* variant A's writeCareSensor from the battery level on; `i` is the offset
\* the code has reached
writeCareSensorTailA(state, changes, buf, i) ==
  writeTime(state, changes,
    WhenChanged16(changes, "groups",
    WhenChanged16(changes, "batteryVoltage",
    WhenChanged16(changes, "batteryLevel", buf,
      StoreRound(OrZero(Get(state, "batteryLevel"))), i),
      StoreRoundTimes100(NumberOrFF(Get(state, "batteryVoltage"))), i + 2),
      StoreInt(OrZero(Get(state, "groups"))), i + 4),
    i + 6)

\* variant A's writeCareSensor up to the pressure register
writeCareSensorHeadA(state, changes, buf, i) ==
  WhenChanged16(changes, "pressure",
  (IF Changed(changes, "humidity") \/ Truthy(Get(changes, "magneticField"))
     THEN writeUInt16BE(
            WhenChanged16(changes, "temperature", writeUInt16BE(buf, CareSensorFlags(state), i),
              StoreRoundTimes100(NumberOrFF(Get(state, "temperature"))), i + 2),
            Value2(state), i + 4)
     ELSE WhenChanged16(changes, "temperature", writeUInt16BE(buf, CareSensorFlags(state), i),
            StoreRoundTimes100(NumberOrFF(Get(state, "temperature"))), i + 2)),
  Pressure16(state), i + 6)

\* Device.writeCareSensor of variant A: the offset advances past the three
\* position registers only inside the position branch.  [threw, buf]
writeCareSensorA(state, changes, buf) ==
  IF Changed(changes, "position")
    THEN writeCareSensorTailA(state, changes,
           writePosition(Get(state, "position"),
             writeCareSensorHeadA(state, changes, buf, MSD_FIRST_REGISTER_INDEX),
             MSD_FIRST_REGISTER_INDEX + 8),
           MSD_FIRST_REGISTER_INDEX + 14)
    ELSE writeCareSensorTailA(state, changes,
           writeCareSensorHeadA(state, changes, buf, MSD_FIRST_REGISTER_INDEX),
           MSD_FIRST_REGISTER_INDEX + 8)

\* variant B's magnetic field write
writeMagneticFieldB(state, changes, buf) ==
  IF Changed(changes, "magneticField") /\ IsNumber(Get(state, "magneticField"))
    THEN writeUInt16BE(buf, StoreInt(Get(state, "magneticField")), 36)
    ELSE buf

\* variant B's position write
writePositionB(state, changes, buf) ==
  IF Changed(changes, "position") THEN writePosition(Get(state, "position"), buf, 38) ELSE buf

\* Device.writeCareSensor of variant B (fixed offsets, no pressure
\* register).  [threw, buf]
writeCareSensorB(state, changes, buf) ==
  writeTime(state, changes,
    WhenChanged16(changes, "groups",
    WhenChanged16(changes, "batteryVoltage",
    WhenChanged16(changes, "batteryLevel",
    writePositionB(state, changes,
    writeMagneticFieldB(state, changes,
    WhenChanged16(changes, "humidity",
    WhenChanged16(changes, "temperature",
      writeUInt16BE(buf, CareSensorFlags(state), 32),
      StoreRoundTimes100(NumberOrFF(Get(state, "temperature"))), 34),
      StoreRoundTimes100(NumberOrFF(Get(state, "humidity"))), 36))),
      StoreRound(OrZero(Get(state, "batteryLevel"))), 44),
      StoreRoundTimes100(NumberOrFF(Get(state, "batteryVoltage"))), 46),
      StoreInt(OrZero(Get(state, "groups"))), 48),
    50)

\* the `switch (this.model)` at the end of updateBuffer.  [threw, buf]
writeModel(v, model, state, changes, buf) ==
  IF StrictEq(model, DeviceModel("CareRelay"))
    THEN [threw |-> FALSE, buf |-> writeCareRelay(state, buf)]
  ELSE IF StrictEq(model, DeviceModel("EnergyMeter"))
    THEN [threw |-> FALSE,
          buf |-> IF v = "A" THEN writeEnergyMeterA(state, changes, buf)
                             ELSE writeEnergyMeterB(state, changes, buf)]
  ELSE IF IsOneOf(model, CareSensorModels(v))
    THEN (IF v = "A" THEN writeCareSensorA(state, changes, buf)
                     ELSE writeCareSensorB(state, changes, buf))
  ELSE [threw |-> FALSE, buf |-> buf]

\* (state.localName || '').substring(0, 16) throws a TypeError for a truthy
\* value that is no string
LocalNameThrows(state) == Truthy(Get(state, "localName")) /\ Get(state, "localName").t # "string"

\* (state.localName || '').substring(0, 16)
LocalName16(state) ==
  substring0(IF Truthy(Get(state, "localName")) THEN Get(state, "localName").v ELSE <<>>, 16)

\* the local name write of updateBuffer
writeLocalName(state, changes, buf) ==
  IF Changed(changes, "localName") THEN writeString(buf, LocalName16(state), 6) ELSE buf

\* the alarms write of updateBuffer
writeAlarmsWhenChanged(state, changes, buf) ==
  IF Changed(changes, "alarms") THEN writeAlarms(state, buf, 30) ELSE buf

\* the header writes of updateBuffer
writeHeader(state, changes, buf) ==
  writeAlarmsWhenChanged(state, changes,
    WhenChanged16(changes, "rtto",
    WhenChanged16(changes, "txPowerLevel",
    WhenChanged16(changes, "rssi",
    writeLocalName(state, changes, buf),
      StoreInt(NumberOrFF(Get(state, "rssi"))), 24),
      StoreInt(NumberOrFF(Get(state, "txPowerLevel"))), 26),
      IF Truthy(Get(state, "rtto")) THEN 1 ELSE 0, 28))

\* [threw, d] from the [threw, buf] of the writes
WithBuffer(d, w) == [threw |-> w.threw, d |-> [d EXCEPT !.buffer = w.buf]]

\* updateBuffer from `const buffer = this.buffer` on.  Variant A returns
\* early when there is no buffer; variant B dereferences the null buffer in
\* the first header write it reaches (a TypeError).  A throw leaves the
\* writes made so far.
updateBufferWrites(v, d) ==
  IF ~d.hasBuffer THEN [threw |-> (v = "B"), d |-> d]
  ELSE IF Changed(d.changes, "localName") /\ LocalNameThrows(d.state) THEN [threw |-> TRUE, d |-> d]
  ELSE WithBuffer(d, writeModel(v, d.model, d.state, d.changes,
                                writeHeader(d.state, d.changes, d.buffer)))

\* mutation of updateBuffer: a changed model does not allocate a buffer
updateBuffer_NoReset(v, d) == updateBufferWrites(v, d)

\* Device.updateBuffer: [threw, d]
updateBuffer(v, d) ==
  IF Truthy(Get(d.changes, "model"))
    THEN updateBufferWrites(v, [d EXCEPT !.hasBuffer = TRUE, !.buffer = resetBuffer(v, d)])
    ELSE updateBufferWrites(v, d)

\* the changedKeys.forEach of handleAdvertisingReport: the state takes the
\* changes and every changed key is marked `true`
absorbChanges(d) ==
  [d EXCEPT !.state = [k \in DOMAIN d.state \cup DOMAIN d.changes |->
                         IF k \in DOMAIN d.changes THEN d.changes[k] ELSE d.state[k]],
            !.changes = [k \in DOMAIN d.changes |-> True]]

\* handleAdvertisingReport after updateBuffer returned or threw
afterUpdate(u, clock) ==
  IF u.threw THEN u
  ELSE [threw |-> FALSE, d |-> [u.d EXCEPT !.changes = EmptyObject, !.lastSeenAt = clock]]

\* handleAdvertisingReport from `const changedKeys` on
applyChanges(v, d, clock) ==
  IF DOMAIN d.changes # {}
    THEN afterUpdate(updateBuffer(v, absorbChanges(d)), clock)
    ELSE [threw |-> FALSE, d |-> [d EXCEPT !.lastSeenAt = clock]]

\* Device.handleAdvertisingReport at time `clock`: [threw, d]
handleAdvertisingReport(v, d, report, clock) ==
  applyChanges(v, handleEirData(v, changeState(d, "rssi", report.rssi), report.data), clock)

\* ---------------------------------------------------------------- Gateway
\* new Gateway(options): the registry is empty.  deviceTimeout is variant
\* B's option (0: not given); listeners is variant A's Map, kept as the set
\* of devices that carry the gateway's 'change' listener.
Gateway(v, deviceTimeout) ==
  [deviceTimeout |-> IF v = "B"
                       THEN (IF deviceTimeout # 0 THEN deviceTimeout ELSE DefaultDeviceTimeout)
                       ELSE 0,
   devices |-> {},
   unitToDevice |-> [u \in {} |-> 0],
   macToDevice |-> [m \in {} |-> 0],
   listeners |-> {},
   connections |-> {},
   onData |-> [c \in {} |-> 0],
   buffers |-> [c \in {} |-> <<>>]]

\* map.delete(key)
Delete(f, key) == [k \in DOMAIN f \ {key} |-> f[k]]

\* the value `null` of a device reference
NoDevice == 0

\* Gateway.getDevice (variant A); variant B reads the same maps inline
getDevice(gw, byUnit, address) ==
  IF byUnit
    THEN (IF address \in DOMAIN gw.unitToDevice THEN gw.unitToDevice[address] ELSE NoDevice)
    ELSE (IF address \in DOMAIN gw.macToDevice THEN gw.macToDevice[address] ELSE NoDevice)

\* mutation of addDeviceA: the device is not entered into macToDevice
addDeviceA_NoMacIndex(gw, id, d) ==
  IF id \in gw.devices THEN [err |-> FALSE, gw |-> gw]
  ELSE IF d.unit \in DOMAIN gw.unitToDevice THEN [err |-> TRUE, gw |-> gw]
  ELSE IF d.mac \in DOMAIN gw.macToDevice THEN [err |-> TRUE, gw |-> gw]
  ELSE [err |-> FALSE,
        gw |-> [gw EXCEPT !.listeners = @ \cup {id},
                          !.unitToDevice = Put(@, d.unit, id),
                          !.devices = @ \cup {id}]]

\* Gateway.addDevice of variant A: [err, gw]; `id` is the device object,
\* `d` its fields
addDeviceA(gw, id, d) ==
  IF id \in gw.devices THEN [err |-> FALSE, gw |-> gw]
  ELSE IF d.unit \in DOMAIN gw.unitToDevice THEN [err |-> TRUE, gw |-> gw]
  ELSE IF d.mac \in DOMAIN gw.macToDevice THEN [err |-> TRUE, gw |-> gw]
  ELSE [err |-> FALSE,
        gw |-> [gw EXCEPT !.listeners = @ \cup {id},
                          !.unitToDevice = Put(@, d.unit, id),
                          !.macToDevice = Put(@, d.mac, id),
                          !.devices = @ \cup {id}]]

\* mutation of addDeviceB: a unit that is already taken is not refused
addDeviceB_NoUnitCheck(gw, id, d) ==
  IF id \in gw.devices THEN [err |-> FALSE, gw |-> gw]
  ELSE IF d.mac \in DOMAIN gw.macToDevice THEN [err |-> TRUE, gw |-> gw]
  ELSE [err |-> FALSE,
        gw |-> [gw EXCEPT !.unitToDevice = Put(@, d.unit, id),
                          !.macToDevice = Put(@, d.mac, id)]]

\* Gateway.addDevice of variant B: the device is entered into both maps but
\* not into this.devices
addDeviceB(gw, id, d) ==
  IF id \in gw.devices THEN [err |-> FALSE, gw |-> gw]
  ELSE IF d.unit \in DOMAIN gw.unitToDevice THEN [err |-> TRUE, gw |-> gw]
  ELSE IF d.mac \in DOMAIN gw.macToDevice THEN [err |-> TRUE, gw |-> gw]
  ELSE [err |-> FALSE,
        gw |-> [gw EXCEPT !.unitToDevice = Put(@, d.unit, id),
                          !.macToDevice = Put(@, d.mac, id)]]

addDevice(v, gw, id, d) == IF v = "A" THEN addDeviceA(gw, id, d) ELSE addDeviceB(gw, id, d)

\* Gateway.removeDevice (both variants; variant B has no listeners)
removeDevice(v, gw, id, d) ==
  IF id \notin gw.devices THEN gw
  ELSE [gw EXCEPT !.listeners = @ \ {id},
                  !.unitToDevice = Delete(@, d.unit),
                  !.macToDevice = Delete(@, d.mac),
                  !.devices = @ \ {id}]

\* Gateway.addConnection: the keys of this.connections (the reassembly
\* buffer of a connection is drained by every data handler, so it is empty
\* whenever a handler starts)
\* connection.listeners('data'): how many times the gateway's onData
\* listener is attached to the connection (onData of the Gateway record)
ListenerCount(gw, connection) ==
  IF connection \in DOMAIN gw.onData THEN gw.onData[connection] ELSE 0

\* mutation of addConnection: a connection that is already added is set up
\* again
addConnection_Again(gw, connection) ==
  [gw EXCEPT !.connections = @ \cup {connection},
             !.onData = Put(@, connection, ListenerCount(gw, connection) + 1),
             !.buffers = Put(@, connection, <<>>)]

\* buffers holds state.buffer, the bytes in the BufferQueueReader of each
\* connection
addConnection(gw, connection) ==
  IF connection \in gw.connections THEN gw
  ELSE [gw EXCEPT !.connections = @ \cup {connection},
                  !.onData = Put(@, connection, ListenerCount(gw, connection) + 1),
                  !.buffers = Put(@, connection, <<>>)]

\* Gateway.removeConnection: state.destroy() removes the listener
removeConnection(gw, connection) ==
  IF connection \notin gw.connections THEN gw
  ELSE [gw EXCEPT !.connections = @ \ {connection},
                  !.onData = IF ListenerCount(gw, connection) > 1
                               THEN Put(@, connection, ListenerCount(gw, connection) - 1)
                               ELSE Delete(@, connection),
                  !.buffers = Delete(@, connection)]

\* new Gateway(options) of variant A keeps options.unknownDeviceHandler, or
\* an empty function when none is given, in this.handleUnknownDevice:
\* TRUE stands for the caller's function, FALSE for the empty one.  Variant
\* B keeps no handler.
GatewayWithHandler(v, deviceTimeout, unknownDeviceHandler) ==
  Put(Gateway(v, deviceTimeout), "handleUnknownDevice", v = "A" /\ unknownDeviceHandler)

\* mutation of gatewayHandleAdvertisingReport: the unknown-device handler is
\* called for every report
gatewayHandleAdvertisingReport_AlwaysUnknown(v, gw, devs, report, clock) ==
  LET device == getDevice(gw, FALSE, report.address)
  IN  IF device = NoDevice
        THEN [devs |-> devs, device |-> NoDevice, threw |-> FALSE,
              hook |-> IF gw.handleUnknownDevice THEN 1 ELSE 0]
        ELSE LET r == handleAdvertisingReport(v, devs[device], report, clock)
             IN  [devs |-> [devs EXCEPT ![device] = r.d], device |-> device,
                  threw |-> r.threw,
                  hook |-> IF gw.handleUnknownDevice THEN 1 ELSE 0]

\* Gateway.handleAdvertisingReport: the device objects afterwards, the device
\* the report went to, whether it threw, and the number of calls of the
\* caller's unknown-device handler
gatewayHandleAdvertisingReport(v, gw, devs, report, clock) ==
  LET device == getDevice(gw, FALSE, report.address)
  IN  IF device = NoDevice
        THEN [devs |-> devs, device |-> NoDevice, threw |-> FALSE,
              hook |-> IF gw.handleUnknownDevice THEN 1 ELSE 0]
        ELSE LET r == handleAdvertisingReport(v, devs[device], report, clock)
             IN  [devs |-> [devs EXCEPT ![device] = r.d], device |-> device,
                  threw |-> r.threw, hook |-> 0]

\* this.connections.forEach((s, c) => this.removeConnection(c))
RECURSIVE removeConnections(_, _)
removeConnections(gw, connections) ==
  IF connections = {} THEN gw
  ELSE LET c == CHOOSE x \in connections : TRUE
       IN  removeConnections(removeConnection(gw, c), connections \ {c})

\* this.devices.forEach(d => this.removeDevice(d))
RECURSIVE removeDevices(_, _, _, _)
removeDevices(v, gw, ids, devs) ==
  IF ids = {} THEN gw
  ELSE LET id == CHOOSE x \in ids : TRUE
       IN  removeDevices(v, removeDevice(v, gw, id, devs[id]), ids \ {id}, devs)

\* the calls a connection object receives from destroy: removeConnection
\* detaches the 'data' listener, and a recursive destroy calls c.destroy()
destroyCalls(gw, recursive) ==
  {<<c, "removeListener">> : c \in gw.connections}
    \cup (IF recursive THEN {<<c, "destroy">> : c \in gw.connections} ELSE {})

\* Gateway.destroy(recursive): the gateway afterwards and the calls made on
\* the connection objects.  The devices removed are those of this.devices.
\* (d.destroy() of a recursive destroy in variant A belongs to a Device
\* revision that is not part of the sources; it is not followed.)
destroy(v, gw, devs, recursive) ==
  [gw |-> removeDevices(v, removeConnections(gw, gw.connections), gw.devices, devs),
   calls |-> destroyCalls(gw, recursive)]

\* mutation of handleReadHoldingRegistersRequest: a window that ends exactly
\* at the end of the buffer is refused
handleReadHoldingRegistersRequest_EndRefused(d, request) ==
  IF request.startingIndex > Len(d.buffer) - 1 \/ request.endingIndex > Len(d.buffer) - 1
    THEN [code |-> "IllegalDataAddress", data |-> <<>>]
    ELSE [code |-> "data",
          data |-> SubSeq(d.buffer, request.startingIndex + 1, request.endingIndex)]

\* Device.handleReadHoldingRegistersRequest: the response
handleReadHoldingRegistersRequest(d, request) ==
  IF request.startingIndex > Len(d.buffer) - 1 \/ request.endingIndex > Len(d.buffer)
    THEN [code |-> "IllegalDataAddress", data |-> <<>>]
    ELSE [code |-> "data",
          data |-> SubSeq(d.buffer, request.startingIndex + 1, request.endingIndex)]

\* Device.handleModbusRequest: the response
deviceHandleModbusRequest(d, request) ==
  IF request.functionCode # ReadHoldingRegisters
    THEN [code |-> "IllegalFunctionCode", data |-> <<>>]
    ELSE handleReadHoldingRegistersRequest(d, request)

\* mutation of handleModbusRequest: the function code is looked at before
\* the availability of the device
handleModbusRequest_FunctionCodeFirst(v, gw, devs, unit, request, clock) ==
  LET device == getDevice(gw, TRUE, unit)
  IN  IF device = NoDevice
        THEN [code |-> "IllegalDataAddress", data |-> <<>>]
      ELSE IF request.functionCode # ReadHoldingRegisters
        THEN [code |-> "IllegalFunctionCode", data |-> <<>>]
      ELSE IF ~isAvailable(v, devs[device], gw.deviceTimeout, clock)
        THEN [code |-> "GatewayTargetDeviceFailedToRespond", data |-> <<>>]
      ELSE handleReadHoldingRegistersRequest(devs[device], request)

\* Gateway.handleModbusRequest: the response passed to `respond`; `devs` are
\* the device objects and `clock` is Date.now()
handleModbusRequest(v, gw, devs, unit, request, clock) ==
  LET device == getDevice(gw, TRUE, unit)
  IN  IF device = NoDevice
        THEN [code |-> "IllegalDataAddress", data |-> <<>>]
      ELSE IF ~isAvailable(v, devs[device], gw.deviceTimeout, clock)
        THEN [code |-> "GatewayTargetDeviceFailedToRespond", data |-> <<>>]
      ELSE deviceHandleModbusRequest(devs[device], request)

\* the calls of `respond` a handler makes, in order, and whether it threw
\* before returning
responded(calls) == [calls |-> calls, threw |-> FALSE]

\* Device.handleReadHoldingRegistersRequest: `this.buffer.length` is a
\* TypeError while the buffer is null, before any call of respond
readRespondCalls(d, request) ==
  IF ~d.hasBuffer THEN [calls |-> <<>>, threw |-> TRUE]
  ELSE responded(<<handleReadHoldingRegistersRequest(d, request)>>)

\* Device.handleModbusRequest
deviceRespondCalls(d, request) ==
  IF request.functionCode # ReadHoldingRegisters
    THEN responded(<<[code |-> "IllegalFunctionCode", data |-> <<>>]>>)
    ELSE readRespondCalls(d, request)

\* what came of the calls made so far and the calls of a handler run after
\* them
respondedBefore(calls, rest) == [calls |-> calls \o rest.calls, threw |-> rest.threw]

\* mutation of respondCalls: no `return` after the response for a device
\* that is not available
respondCalls_NoReturn(v, gw, devs, unit, request, clock) ==
  LET device == getDevice(gw, TRUE, unit)
  IN  IF device = NoDevice
        THEN responded(<<[code |-> "IllegalDataAddress", data |-> <<>>]>>)
      ELSE IF ~isAvailable(v, devs[device], gw.deviceTimeout, clock)
        THEN respondedBefore(<<[code |-> "GatewayTargetDeviceFailedToRespond", data |-> <<>>]>>,
                             deviceRespondCalls(devs[device], request))
      ELSE deviceRespondCalls(devs[device], request)

\* Gateway.handleModbusRequest: the calls of `respond` it makes before it
\* returns
respondCalls(v, gw, devs, unit, request, clock) ==
  LET device == getDevice(gw, TRUE, unit)
  IN  IF device = NoDevice
        THEN responded(<<[code |-> "IllegalDataAddress", data |-> <<>>]>>)
      ELSE IF ~isAvailable(v, devs[device], gw.deviceTimeout, clock)
        THEN responded(<<[code |-> "GatewayTargetDeviceFailedToRespond", data |-> <<>>]>>)
      ELSE deviceRespondCalls(devs[device], request)

\* ------------------------------------------------ advertising reports used
\* report.address as the HCI decoder spells it
AddressX == <<"0","0",":","1","2",":","6","F",":","6","D",":","3","E",":","0","6">>
AddressY == <<"0","0",":","1","2",":","6","F",":","6","D",":","3","C",":","5","5">>
AddressZ == <<"0","0",":","1","2",":","6","F",":","9","1",":","3","5",":","F","B">>

NoAlarms == Obj([lowBattery |-> Bool(FALSE), moveAccelerometer |-> Bool(FALSE)])

\* a scan response: the local name and no manufacturer data
ScanResponseX ==
  [address |-> AddressX, rssi |-> NumInt(-70),
   data |-> << [type |-> "LocalNameComplete", props |-> [value |-> Str(<<"i","N","o","d","e">>)]] >>]

CareSensorX ==
  [address |-> AddressX, rssi |-> NumInt(-70),
   data |-> << [type |-> "Flags", props |-> [value |-> NumInt(6)]],
               [type |-> "ManufacturerSpecificData",
                props |-> [model |-> DeviceModel("CareSensor1"), rtto |-> Bool(FALSE),
                           alarms |-> NoAlarms, input |-> Bool(TRUE), output |-> Bool(FALSE),
                           temperature |-> Num(2134), humidity |-> Num(4550),
                           batteryLevel |-> NumInt(90), batteryVoltage |-> Num(288),
                           groups |-> NumInt(1)]] >>]

EnergyMeterX ==
  [address |-> AddressX, rssi |-> NumInt(-71),
   data |-> << [type |-> "ManufacturerSpecificData",
                props |-> [model |-> DeviceModel("EnergyMeter"), rtto |-> Bool(TRUE),
                           alarms |-> NoAlarms, unit |-> NumInt(0), constant |-> NumInt(100),
                           sum |-> Num(500), average |-> Num(150)]] >>]

CareRelayY ==
  [address |-> AddressY, rssi |-> NumInt(-60),
   data |-> << [type |-> "TxPowerLevel", props |-> [value |-> NumInt(2)]],
               [type |-> "ManufacturerSpecificData",
                props |-> [model |-> DeviceModel("CareRelay"), rtto |-> Bool(FALSE),
                           alarms |-> NoAlarms, output |-> Bool(TRUE)]] >>]

UnknownZ ==
  [address |-> AddressZ, rssi |-> NumInt(-80),
   data |-> << [type |-> "ManufacturerSpecificData",
                props |-> [model |-> DeviceModel("CareRelay"), rtto |-> Bool(FALSE),
                           alarms |-> NoAlarms, output |-> Bool(FALSE)]] >>]

Reports == {ScanResponseX, CareSensorX, CareRelayY, UnknownZ}

\* ------------------------------------------------------- MODBUS requests
\* a function code other than Read Holding Registers stands for all of them
RequestUnits == {CtorArgs[i].unit : i \in DevIds}
Requests ==
  { [functionCode |-> ReadHoldingRegisters, startingIndex |-> w[1], endingIndex |-> w[2]] :
      w \in {<<0, 6>>, <<44, 56>>, <<56, 58>>} }
  \cup { [functionCode |-> ReadHoldingRegisters + 3, startingIndex |-> 0, endingIndex |-> 2] }

\* the byte-stream sources handed to addConnection
Connections == {"serial"}

\* the steps of the wall clock
ClockSteps == {DefaultDeviceTimeout, DefaultDeviceTimeout + 1}

\* the deviceTimeout option values tried for variant B's Gateway (0: none)
GatewayTimeouts == {0, 1}

\* ------------------------------------------------------------------ state
VARIABLES
  variant,   \* which revision of the Gateway/Device pair runs
  gateway,   \* the Gateway object: registry maps, listeners, options
  dev,       \* the Device objects, by identity
  now,       \* Date.now()
  lastOp,    \* the operation handled last, its device and whether it threw
  response   \* what the last operation passed to `respond`, with its request

vars == <<variant, gateway, dev, now, lastOp, response>>

NoRequest == [functionCode |-> 0, startingIndex |-> 0, endingIndex |-> 0]
NoResponse == [unit |-> -1, request |-> NoRequest, code |-> "none", data |-> <<>>]

Init ==
  /\ variant \in Variants
  /\ \E t \in GatewayTimeouts :
       /\ variant = "A" => t = 0
       /\ gateway = Gateway(variant, t)
  /\ dev = [i \in DevIds |->
              Device(variant, CtorArgs[i].mac, CtorArgs[i].unit, CtorArgs[i].deviceTimeout).dev]
  /\ now = StartTime
  /\ lastOp = [op |-> "none", dev |-> NoDevice, err |-> FALSE]
  /\ response = NoResponse

\* gateway.addDevice(device)
AddDevice(i) ==
  LET r == addDevice(variant, gateway, i, dev[i])
  IN  /\ gateway' = r.gw
      /\ lastOp' = [op |-> "addDevice", dev |-> i, err |-> r.err]
      /\ response' = NoResponse
      /\ UNCHANGED <<variant, dev, now>>

\* gateway.removeDevice(device)
RemoveDevice(i) ==
  /\ gateway' = removeDevice(variant, gateway, i, dev[i])
  /\ lastOp' = [op |-> "removeDevice", dev |-> i, err |-> FALSE]
  /\ response' = NoResponse
  /\ UNCHANGED <<variant, dev, now>>

\* gateway.addConnection(connection)
AddConnection(c) ==
  /\ gateway' = addConnection(gateway, c)
  /\ lastOp' = [op |-> "addConnection", dev |-> NoDevice, err |-> FALSE]
  /\ response' = NoResponse
  /\ UNCHANGED <<variant, dev, now>>

\* gateway.removeConnection(connection)
RemoveConnection(c) ==
  /\ gateway' = removeConnection(gateway, c)
  /\ lastOp' = [op |-> "removeConnection", dev |-> NoDevice, err |-> FALSE]
  /\ response' = NoResponse
  /\ UNCHANGED <<variant, dev, now>>

\* mutation of Request: a device that fails to respond is unregistered
Request_Evicting(unit, request) ==
  LET r == handleModbusRequest(variant, gateway, dev, unit, request, now)
      device == getDevice(gateway, TRUE, unit)
  IN  /\ response' = [unit |-> unit, request |-> request, code |-> r.code, data |-> r.data]
      /\ lastOp' = [op |-> "request", dev |-> device, err |-> FALSE]
      /\ gateway' = IF r.code = "GatewayTargetDeviceFailedToRespond"
                      THEN [gateway EXCEPT !.devices = @ \ {device},
                                           !.listeners = @ \ {device},
                                           !.unitToDevice = Delete(@, unit),
                                           !.macToDevice = Delete(@, dev[device].mac)]
                      ELSE gateway
      /\ UNCHANGED <<variant, dev, now>>

\* gateway.handleModbusRequest(unit, request, respond)
Request(unit, request) ==
  LET r == handleModbusRequest(variant, gateway, dev, unit, request, now)
  IN  /\ response' = [unit |-> unit, request |-> request, code |-> r.code, data |-> r.data]
      /\ lastOp' = [op |-> "request", dev |-> getDevice(gateway, TRUE, unit), err |-> FALSE]
      /\ UNCHANGED <<variant, gateway, dev, now>>

\* Gateway.handleAdvertisingReport(report): the device registered under the
\* report's address applies it; a report of an unknown device goes to the
\* unknown-device handler (variant A) or is dropped (variant B)
Report(report) ==
  LET device == getDevice(gateway, FALSE, report.address)
  IN  /\ IF device = NoDevice
           THEN /\ dev' = dev
                /\ lastOp' = [op |-> "report", dev |-> NoDevice, err |-> FALSE]
           ELSE LET r == handleAdvertisingReport(variant, dev[device], report, now)
                IN  /\ dev' = [dev EXCEPT ![device] = r.d]
                    /\ lastOp' = [op |-> "report", dev |-> device, err |-> r.threw]
      /\ response' = NoResponse
      /\ UNCHANGED <<variant, gateway, now>>

\* time passes
Tick(step) ==
  /\ now + step <= StartTime + MaxElapsed
  /\ now' = now + step
  /\ lastOp' = [op |-> "tick", dev |-> NoDevice, err |-> FALSE]
  /\ response' = NoResponse
  /\ UNCHANGED <<variant, gateway, dev>>

Next ==
  \/ \E i \in DevIds : AddDevice(i)
  \/ \E i \in DevIds : RemoveDevice(i)
  \/ \E c \in Connections : AddConnection(c)
  \/ \E c \in Connections : RemoveConnection(c)
  \/ \E unit \in RequestUnits, request \in Requests : Request(unit, request)
  \/ \E report \in Reports : Report(report)
  \/ \E step \in ClockSteps : Tick(step)

Spec == Init /\ [][Next]_vars

\* ------------------------------------------- one device and its reports
\* The reports a single Device is given directly, whatever their address.
LongNameX ==
  [address |-> AddressX, rssi |-> NumInt(-70),
   data |-> << [type |-> "LocalNameComplete",
                props |-> [value |-> Str(<<"i","N","o","d","e","C","a","r","e","S","e","n",
                                           "s","o","r","0","0","0","1">>)]] >>]

\* a CareSensor1 report that carries no temperature
CareSensorNoTemperatureX ==
  [address |-> AddressX, rssi |-> NumInt(-70),
   data |-> << [type |-> "ManufacturerSpecificData",
                props |-> [model |-> DeviceModel("CareSensor1"), rtto |-> Bool(FALSE),
                           alarms |-> NoAlarms, input |-> Bool(FALSE), output |-> Bool(TRUE),
                           humidity |-> Num(4550), batteryLevel |-> NumInt(90),
                           batteryVoltage |-> Num(288), groups |-> NumInt(1)]] >>]

CareSensorPTX ==
  [address |-> AddressX, rssi |-> NumInt(-70),
   data |-> << [type |-> "ManufacturerSpecificData",
                props |-> [model |-> DeviceModel("CareSensorPT"), rtto |-> Bool(FALSE),
                           alarms |-> NoAlarms, input |-> Bool(FALSE), output |-> Bool(FALSE),
                           temperature |-> Num(2134), pressure |-> Num(100125),
                           batteryLevel |-> NumInt(90), batteryVoltage |-> Num(288),
                           groups |-> NumInt(1)]] >>]

\* an EnergyMeter report that counts impulses (unit 2)
EnergyMeterCountX ==
  [address |-> AddressX, rssi |-> NumInt(-71),
   data |-> << [type |-> "ManufacturerSpecificData",
                props |-> [model |-> DeviceModel("EnergyMeter"), rtto |-> Bool(TRUE),
                           alarms |-> NoAlarms, unit |-> NumInt(2), constant |-> NumInt(100),
                           sum |-> NumInt(500), average |-> NumInt(150)]] >>]

CareRelayX ==
  [address |-> AddressX, rssi |-> NumInt(-60),
   data |-> << [type |-> "TxPowerLevel", props |-> [value |-> NumInt(2)]],
               [type |-> "ManufacturerSpecificData",
                props |-> [model |-> DeviceModel("CareRelay"), rtto |-> Bool(FALSE),
                           alarms |-> NoAlarms, output |-> Bool(TRUE)]] >>]

\* a report whose only EIR entry is of a type the Device does not handle
FlagsOnlyX ==
  [address |-> AddressX, rssi |-> NumInt(-70),
   data |-> << [type |-> "Flags", props |-> [value |-> NumInt(6)]] >>]

DeviceReports ==
  {ScanResponseX, LongNameX, FlagsOnlyX, CareSensorX, CareSensorNoTemperatureX, CareSensorPTX,
   EnergyMeterX, EnergyMeterCountX, CareRelayX}

\* the read windows given to a Device directly: starts and ends around the
\* buffer lengths the models have
ReadWindows ==
  { [functionCode |-> ReadHoldingRegisters, startingIndex |-> w[1], endingIndex |-> w[2]] :
      w \in {<<0, 34>>, <<0, 35>>, <<0, 56>>, <<0, 57>>,
             <<34, 35>>, <<34, 56>>, <<34, 57>>, <<56, 57>>} }

\* the Device object the reports are applied to
TheDevice == 1

NoReport == [address |-> <<>>, rssi |-> Undefined, data |-> <<>>]

InitDevice ==
  /\ variant \in Variants
  /\ gateway = Gateway(variant, 0)
  /\ dev = [i \in DevIds |->
              Device(variant, CtorArgs[i].mac, CtorArgs[i].unit, CtorArgs[i].deviceTimeout).dev]
  /\ now = StartTime
  /\ lastOp = [op |-> "none", dev |-> NoDevice, err |-> FALSE, report |-> NoReport]
  /\ response = NoResponse

\* device.handleAdvertisingReport(report); a millisecond passes after it
Apply(report) ==
  LET r == handleAdvertisingReport(variant, dev[TheDevice], report, now)
  IN  /\ now < StartTime + MaxReports
      /\ dev' = [dev EXCEPT ![TheDevice] = r.d]
      /\ now' = now + 1
      /\ lastOp' = [op |-> "apply", dev |-> TheDevice, err |-> r.threw, report |-> report]
      /\ response' = NoResponse
      /\ UNCHANGED <<variant, gateway>>

\* device.handleModbusRequest(request, respond); `this.buffer.length` is a
\* TypeError while the buffer is null
Read(request) ==
  LET r == IF dev[TheDevice].hasBuffer
             THEN deviceHandleModbusRequest(dev[TheDevice], request)
             ELSE [code |-> "TypeError", data |-> <<>>]
  IN  /\ response' = [unit |-> dev[TheDevice].unit, request |-> request,
                      code |-> r.code, data |-> r.data]
      /\ lastOp' = [op |-> "read", dev |-> TheDevice, err |-> FALSE, report |-> lastOp.report]
      /\ UNCHANGED <<variant, gateway, dev, now>>

NextDevice ==
  \/ \E report \in DeviceReports : Apply(report)
  \/ \E request \in ReadWindows : Read(request)

SpecDevice == InitDevice /\ [][NextDevice]_vars

\* ------------------------------------------ one CareSensor and its reports
\* msd.position
Position(x, y, z) == Obj([x |-> NumInt(x), y |-> NumInt(y), z |-> NumInt(z)])

\* a CareSensor1 report with a position, a battery level and a time
SensorReport(position, batteryLevel, time) ==
  [address |-> AddressX, rssi |-> NumInt(-70),
   data |-> << [type |-> "ManufacturerSpecificData",
                props |-> [model |-> DeviceModel("CareSensor1"), rtto |-> Bool(FALSE),
                           alarms |-> NoAlarms, input |-> Bool(FALSE), output |-> Bool(FALSE),
                           position |-> position,
                           temperature |-> Num(2134), humidity |-> Num(4550),
                           batteryLevel |-> NumInt(batteryLevel),
                           batteryVoltage |-> Num(288),
                           groups |-> NumInt(1), time |-> time]] >>]

\* the timestamps of the reports, in milliseconds: the later one has a
\* millisecond part of 500
EarlyTime == Date(1499)
LaterTime == Date(2500)

SensorAtRestX == SensorReport(Position(1, 2, 3), 90, EarlyTime)
\* only the battery level differs from SensorAtRestX
SensorLowBatteryX == SensorReport(Position(1, 2, 3), 80, EarlyTime)
\* only the time differs from SensorAtRestX
SensorLaterX == SensorReport(Position(1, 2, 3), 90, LaterTime)
\* only the position differs from SensorAtRestX
SensorMovedX == SensorReport(Position(5, 2, 3), 90, EarlyTime)
\* the position has no z any more
SensorNoZX == SensorReport(Obj([x |-> NumInt(1), y |-> NumInt(2)]), 90, EarlyTime)

SensorReports ==
  {SensorAtRestX, SensorLowBatteryX, SensorLaterX, SensorMovedX, SensorNoZX,
   CareSensorX, CareRelayX}

NextSensor == \E report \in SensorReports : Apply(report)

SpecSensor == InitDevice /\ [][NextSensor]_vars

\* --------------------------------------- the gateway and its connections
\* new Gateway(options) with and without options.unknownDeviceHandler
InitGateway ==
  /\ variant \in Variants
  /\ \E unknownDeviceHandler \in BOOLEAN :
       gateway = GatewayWithHandler(variant, 0, unknownDeviceHandler)
  /\ dev = [i \in DevIds |->
              Device(variant, CtorArgs[i].mac, CtorArgs[i].unit, CtorArgs[i].deviceTimeout).dev]
  /\ now = StartTime
  /\ lastOp = [op |-> "none", dev |-> NoDevice, err |-> FALSE]
  /\ response = NoResponse

\* connection.emit('data', chunk) for a chunk that decodes to an advertising
\* report event with one report: each of the n attached listeners runs
\* onConnectionData (which returns when the connection is no key of
\* this.connections), decodeHciPacket, handleHciAdvertisingReportEvent and
\* handleAdvertisingReport; a listener that throws ends the emit.  `times`
\* counts the runs that got to decode the chunk.
\* one run of the listener, and a run followed by the runs of the listeners
\* behind it
ranOnce(r) ==
  [devs |-> r.devs, device |-> r.device, threw |-> r.threw, hook |-> r.hook, times |-> 1]
ranBefore(r, rest) ==
  [devs |-> rest.devs, device |-> r.device, threw |-> rest.threw,
   hook |-> r.hook + rest.hook, times |-> 1 + rest.times]

RECURSIVE emitData(_, _, _, _, _, _, _)
emitData(v, gw, devs, c, report, clock, n) ==
  IF n = 0 \/ c \notin gw.connections
    THEN [devs |-> devs, device |-> NoDevice, threw |-> FALSE, hook |-> 0, times |-> 0]
    ELSE LET r == gatewayHandleAdvertisingReport(v, gw, devs, report, clock)
         IN  IF r.threw \/ n = 1
               THEN ranOnce(r)
               ELSE ranBefore(r, emitData(v, gw, r.devs, c, report, clock, n - 1))

\* connection c emits a 'data' chunk
emitted(r) ==
  [dev |-> r.devs,
   lastOp |-> [op |-> "data", dev |-> r.device, err |-> r.threw,
               hook |-> r.hook, routed |-> r.times > 0, times |-> r.times]]

Data(c, report) ==
  LET r == emitted(emitData(variant, gateway, dev, c, report, now, ListenerCount(gateway, c)))
  IN  /\ dev' = r.dev
      /\ lastOp' = r.lastOp
      /\ response' = NoResponse
      /\ UNCHANGED <<variant, gateway, now>>

\* gateway.destroy(recursive)
Destroy(recursive) ==
  LET r == destroy(variant, gateway, dev, recursive)
  IN  /\ gateway' = r.gw
      /\ lastOp' = [op |-> "destroy", dev |-> NoDevice, err |-> FALSE, calls |-> r.calls]
      /\ response' = NoResponse
      /\ UNCHANGED <<variant, dev, now>>

NextGateway ==
  \/ \E i \in DevIds : AddDevice(i)
  \/ \E i \in DevIds : RemoveDevice(i)
  \/ \E c \in Connections : AddConnection(c)
  \/ \E c \in Connections : RemoveConnection(c)
  \/ \E c \in Connections, report \in Reports : Data(c, report)
  \/ \E recursive \in BOOLEAN : Destroy(recursive)

SpecGateway == InitGateway /\ [][NextGateway]_vars

\* ------------------------------------------------- responses that are kept
\* whether updateBuffer, run by this report, puts a new Buffer into
\* this.buffer (resetBuffer after a changed model) instead of writing into
\* the one that is there
reallocates(v, d, report) ==
  Truthy(Get(absorbChanges(handleEirData(v, changeState(d, "rssi", report.rssi),
                                         report.data)).changes, "model"))

\* whether the data of the response the caller holds is a part of the
\* device's present buffer: buffer.slice(start, end) of a Node.js Buffer
\* makes no copy, the slice and the buffer share their memory
SharesBuffer ==
  /\ response.code = "data"
  /\ lastOp.op = "read" \/ (lastOp.op = "apply" /\ lastOp.shares)

\* the bytes of the kept response after a report was applied
dataAfter(d, shares, realloc) ==
  IF shares /\ ~realloc
    THEN SubSeq(d.buffer, response.request.startingIndex + 1, response.request.endingIndex)
    ELSE response.data

\* the reports applied while a response is kept
KeptReports == {ScanResponseX, LongNameX, CareSensorX, CareSensorNoTemperatureX, CareRelayX}

\* device.handleAdvertisingReport(report) while the caller still holds the
\* response delivered last; a millisecond passes after it
ApplyHeld(report) ==
  /\ now < StartTime + MaxReports
  /\ \E r \in {handleAdvertisingReport(variant, dev[TheDevice], report, now)},
        realloc \in {reallocates(variant, dev[TheDevice], report)} :
       /\ dev' = [dev EXCEPT ![TheDevice] = r.d]
       /\ response' = [response EXCEPT !.data = dataAfter(r.d, SharesBuffer, realloc)]
       /\ lastOp' = [op |-> "apply", dev |-> TheDevice, err |-> r.threw, report |-> report,
                     shares |-> SharesBuffer /\ ~realloc]
  /\ now' = now + 1
  /\ UNCHANGED <<variant, gateway>>

NextKept ==
  \/ \E report \in KeptReports : ApplyHeld(report)
  \/ \E request \in ReadWindows : Read(request)

SpecKept == InitDevice /\ [][NextKept]_vars

\* ------------------------------------------- advertising events with several reports
\* Gateway.handleHciAdvertisingReportEvent:
\* hciPacket.parameters.reports.forEach(r => this.handleAdvertisingReport(r)).
\* A report whose device throws ends the forEach: the error leaves the
\* 'data' listener and the reports behind it are not routed.
RECURSIVE handleHciAdvertisingReportEvent(_, _, _, _, _)
handleHciAdvertisingReportEvent(v, gw, devs, reports, clock) ==
  IF Len(reports) = 0 THEN [devs |-> devs, threw |-> FALSE]
  ELSE LET r == gatewayHandleAdvertisingReport(v, gw, devs, Head(reports), clock)
       IN  IF r.threw THEN [devs |-> r.devs, threw |-> TRUE]
           ELSE handleHciAdvertisingReportEvent(v, gw, r.devs, Tail(reports), clock)

\* the reports the events are made of, and the events: one or two reports
EventReports == {ScanResponseX, CareRelayY, SensorAtRestX, SensorLaterX}
Events == {<<r>> : r \in EventReports} \cup {<<r, s>> : r, s \in EventReports}

\* connection c emits a 'data' chunk that decodes to an advertising report
\* event: onConnectionData, decodeHciPacket, handleHciAdvertisingReportEvent;
\* a millisecond passes after it
DataEvent(c, reports) ==
  LET r == handleHciAdvertisingReportEvent(variant, gateway, dev, reports, now)
  IN  /\ now < StartTime + MaxReports
      /\ IF ListenerCount(gateway, c) > 0 /\ c \in gateway.connections
           THEN /\ dev' = r.devs
                /\ lastOp' = [op |-> "event", dev |-> NoDevice, err |-> r.threw]
           ELSE /\ dev' = dev
                /\ lastOp' = [op |-> "event", dev |-> NoDevice, err |-> FALSE]
      /\ now' = now + 1
      /\ response' = NoResponse
      /\ UNCHANGED <<variant, gateway>>

NextEvents ==
  \/ \E i \in DevIds : AddDevice(i)
  \/ \E c \in Connections : AddConnection(c)
  \/ \E c \in Connections : RemoveConnection(c)
  \/ \E c \in Connections, reports \in Events : DataEvent(c, reports)

SpecEvents == InitGateway /\ [][NextEvents]_vars

\* ---------------------------------------------------- chunks and their bytes
\* new Buffer(text, 'hex'): the bytes of the pairs of hexadecimal digits,
\* up to the first pair that is none
RECURSIVE fromHex(_)
fromHex(text) ==
  IF Len(text) < 2 THEN <<>>
  ELSE IF toUpperCaseChar(text[1]) \notin HexUpper \/ toUpperCaseChar(text[2]) \notin HexUpper
         THEN <<>>
  ELSE <<parseHex(<<toUpperCaseChar(text[1]), toUpperCaseChar(text[2])>>)>>
         \o fromHex(SubSeq(text, 3, Len(text)))

\* the advertising report events the decoder knows, by the last byte of
\* their packet
AdvertisingEvents ==
  << <<ScanResponseX>>, <<UnknownZ, CareRelayY>>, <<CareRelayY, UnknownZ, ScanResponseX>> >>

\* btHci.decode(buffer) of the external decoder, as a table: an LE Meta event
\* with the advertising report subevent, a command complete event, and a
\* thrown error for every other byte sequence
btHciDecode(buffer) ==
  IF Len(buffer) = 4 /\ buffer[1] = 4 /\ buffer[2] = 62 /\ buffer[3] = 2
       /\ buffer[4] \in 1 .. Len(AdvertisingEvents)
    THEN [threw |-> FALSE, advertisingReport |-> TRUE, reports |-> AdvertisingEvents[buffer[4]]]
  ELSE IF buffer = <<4, 14>>
    THEN [threw |-> FALSE, advertisingReport |-> FALSE, reports |-> <<>>]
  ELSE [threw |-> TRUE, advertisingReport |-> FALSE, reports |-> <<>>]

\* what a run of onConnectionData leaves: the gateway, the devices, whether
\* it threw, the bytes given to the decoder, the reports handed to
\* handleAdvertisingReport and the calls of the unknown-device handler
handled(gw, devs, threw, decoded, routed, hook) ==
  [gw |-> gw, devs |-> devs, threw |-> threw, decoded |-> decoded,
   routed |-> routed, hook |-> hook]

\* the gateway after the unknown-device handler ran: a handler of the caller
\* may call gateway.removeConnection(c)
afterHook(gw, r, c, removes) ==
  IF r.hook = 1 /\ removes THEN removeConnection(gw, c) ELSE gw

\* a routed report followed by the routing of the reports behind it
routedBefore(r, rest) ==
  handled(rest.gw, rest.devs, rest.threw, rest.decoded, 1 + rest.routed, r.hook + rest.hook)

\* mutation of routeReports: a report is routed only while the connection
\* is still added
RECURSIVE routeReports_WhileAdded(_, _, _, _, _, _, _, _)
RECURSIVE routeNext_WhileAdded(_, _, _, _, _, _, _, _)
routeNext_WhileAdded(v, gw, r, reports, clock, c, removes, decoded) ==
  IF r.threw THEN handled(gw, r.devs, TRUE, decoded, 1, 0)
  ELSE routedBefore(r, routeReports_WhileAdded(v, afterHook(gw, r, c, removes), r.devs,
                                               reports, clock, c, removes, decoded))
routeReports_WhileAdded(v, gw, devs, reports, clock, c, removes, decoded) ==
  IF Len(reports) = 0 \/ c \notin gw.connections
    THEN handled(gw, devs, FALSE, decoded, 0, 0)
    ELSE routeNext_WhileAdded(v, gw,
                              gatewayHandleAdvertisingReport(v, gw, devs, Head(reports), clock),
                              Tail(reports), clock, c, removes, decoded)

\* handleHciAdvertisingReportEvent while a chunk of connection c is handled:
\* reports.forEach(r => this.handleAdvertisingReport(r)) over the decoded
\* array; `r` is what routing the first report made, and a report whose
\* device throws ends the forEach
RECURSIVE routeReports(_, _, _, _, _, _, _, _)
RECURSIVE routeNext(_, _, _, _, _, _, _, _)
routeNext(v, gw, r, reports, clock, c, removes, decoded) ==
  IF r.threw THEN handled(gw, r.devs, TRUE, decoded, 1, 0)
  ELSE routedBefore(r, routeReports(v, afterHook(gw, r, c, removes), r.devs,
                                    reports, clock, c, removes, decoded))
routeReports(v, gw, devs, reports, clock, c, removes, decoded) ==
  IF Len(reports) = 0
    THEN handled(gw, devs, FALSE, decoded, 0, 0)
    ELSE routeNext(v, gw, gatewayHandleAdvertisingReport(v, gw, devs, Head(reports), clock),
                   Tail(reports), clock, c, removes, decoded)

\* the steps of decodeHciPacket after the bytes were taken
decoding(v, gw, devs, packet, clock, c, removes, decoded) ==
  IF packet.threw THEN handled(gw, devs, TRUE, decoded, 0, 0)
  ELSE IF packet.advertisingReport
    THEN routeReports(v, gw, devs, packet.reports, clock, c, removes, decoded)
  ELSE handled(gw, devs, FALSE, decoded, 0, 0)

\* mutation of decodeHciPacket: the bytes are read and stay in the reader
decodeHciPacket_ReadOnly(v, gw, devs, clock, c, removes) ==
  decoding(v, gw, devs, btHciDecode(gw.buffers[c]), clock, c, removes, gw.buffers[c])

\* Gateway.decodeHciPacket: shiftBuffer(bufferReader.length) takes every
\* byte out of the reader of connection c before btHci.decode runs
decodeHciPacket(v, gw, devs, clock, c, removes) ==
  decoding(v, [gw EXCEPT !.buffers[c] = <<>>], devs, btHciDecode(gw.buffers[c]),
           clock, c, removes, gw.buffers[c])

\* Gateway.onConnectionData(connection, data)
onConnectionData(v, gw, devs, clock, c, data, removes) ==
  IF c \notin gw.connections
    THEN handled(gw, devs, FALSE, <<>>, 0, 0)
    ELSE decodeHciPacket(v, [gw EXCEPT !.buffers[c] =
                                 @ \o (IF gw.hexEncoded THEN fromHex(data) ELSE data)],
                         devs, clock, c, removes)

\* the chunks the connections emit: text of hexadecimal digits for a gateway
\* with hexEncoded, bytes for one without.  Each kind has the three
\* advertising events, a packet of another type, a packet the decoder throws
\* on; the text has one with a pair that is no hexadecimal number.
HexChunks ==
  { <<"0","4","3","E","0","2","0","1">>, <<"0","4","3","e","0","2","0","2">>,
    <<"0","4","3","E","0","2","0","3">>, <<"0","4","0","E">>, <<"0","1","0","3">>,
    <<"0","4","3","E","z","z","0","1">> }
RawChunks ==
  { <<4, 62, 2, 1>>, <<4, 62, 2, 2>>, <<4, 62, 2, 3>>, <<4, 14>>, <<1, 3>> }
Chunks(hexEncoded) == IF hexEncoded THEN HexChunks ELSE RawChunks
ChunkConnections == {"serial", "tcp"}

\* new Gateway(options) with options.hexEncoded and, in variant A,
\* options.unknownDeviceHandler
InitChunks ==
  /\ variant \in Variants
  /\ \E unknownDeviceHandler \in BOOLEAN, hexEncoded \in BOOLEAN :
       gateway = Put(GatewayWithHandler(variant, 0, unknownDeviceHandler),
                     "hexEncoded", hexEncoded)
  /\ dev = [i \in DevIds |->
              Device(variant, CtorArgs[i].mac, CtorArgs[i].unit, CtorArgs[i].deviceTimeout).dev]
  /\ now = StartTime
  /\ lastOp = [op |-> "none", dev |-> NoDevice, err |-> FALSE]
  /\ response = NoResponse

\* the step a finished connection.emit('data', data) makes
chunkHandled(c, data, removes, r) ==
  [gateway |-> r.gw, dev |-> r.devs,
   lastOp |-> [op |-> "chunk", dev |-> NoDevice, err |-> r.threw, connection |-> c,
               data |-> data, removes |-> removes, decoded |-> r.decoded,
               routed |-> r.routed, hook |-> r.hook]]

\* connection c emits the chunk `data`; with `removes` the caller's
\* unknown-device handler calls gateway.removeConnection(c).  A connection
\* without the listener runs nothing.
Chunk(c, data, removes) ==
  /\ removes => gateway.handleUnknownDevice
  /\ \E r \in {chunkHandled(c, data, removes,
                  IF ListenerCount(gateway, c) > 0
                    THEN onConnectionData(variant, gateway, dev, now, c, data, removes)
                    ELSE handled(gateway, dev, FALSE, <<>>, 0, 0))} :
       /\ gateway' = r.gateway
       /\ dev' = r.dev
       /\ lastOp' = r.lastOp
  /\ response' = NoResponse
  /\ UNCHANGED <<variant, now>>

NextChunks ==
  \/ \E i \in DevIds : AddDevice(i)
  \/ \E c \in ChunkConnections : AddConnection(c)
  \/ \E c \in ChunkConnections : RemoveConnection(c)
  \/ \E c \in ChunkConnections, removes \in BOOLEAN :
       \E data \in Chunks(gateway.hexEncoded) : Chunk(c, data, removes)

SpecChunks == InitChunks /\ [][NextChunks]_vars

\* ------------------------------------------------- constructing a Device
\* `unit < 0 || unit > 0xFF` for any JavaScript value: both comparisons are
\* false when the value converts to NaN
unitOutOfRange(unit) ==
  LET n == ToNumber(unit)
  IN  ~n.nan /\ (n.h < 0 \/ n.h > 100 * UnitMax)

\* new Device(mac, unit) for any JavaScript value `unit`: the validation of the
\* constructor, and the mac and unit fields of the object
newDevice(mac, unit) ==
  IF unitOutOfRange(unit) THEN [err |-> TRUE, mac |-> <<>>, unit |-> Undefined]
  ELSE LET prepared == prepareMacAddress(mac)
       IN  IF prepared.err THEN [err |-> TRUE, mac |-> <<>>, unit |-> Undefined]
           ELSE [err |-> FALSE, mac |-> prepared.mac, unit |-> unit]

\* MAC addresses as a caller may spell them: with single-digit groups, with
\* other separators, with five and with seven groups, with letters that
\* are no hexadecimal digits
RawMacShortGroups == <<"0",":","1","2",":","6","f",":","6","d",":","3","e",":","6">>
RawMacDots == <<"0","0",".","1","2",".","6","F",".","6","D",".","3","E",".","0","6">>
RawMacFiveGroups == <<"0","0",":","1","2",":","6","F",":","6","D",":","3","E">>
RawMacSevenGroups == RawMacColon \o <<":","0","1">>
RawMacNoHex == <<"G","G",":","1","2",":","6","F",":","6","D",":","3","E",":","0","6">>

RawMacs ==
  {RawMacLowerHyphen, RawMacPlain, RawMacColon, RawMacShortGroups, RawMacDots,
   RawMacFiveGroups, RawMacSevenGroups, RawMacNoHex}

\* units as a caller may give them: integers in and out of range,
\* fractions, and no unit at all
RawUnits ==
  {NumInt(-1), NumInt(0), NumInt(1), NumInt(UnitMax), NumInt(UnitMax + 1),
   Num(150), Num(100 * UnitMax + 50), Undefined}

\* no Device was constructed yet
InitConstruct ==
  /\ variant \in Variants
  /\ gateway = Gateway(variant, 0)
  /\ dev = <<>>
  /\ now = StartTime
  /\ lastOp = [op |-> "none", err |-> FALSE, mac |-> <<>>, unit |-> Undefined]
  /\ response = NoResponse

\* new Device(mac, unit): `dev` holds the objects constructed
Construct(mac, unit) ==
  LET r == newDevice(mac, unit)
  IN  /\ dev = <<>>
      /\ dev' = IF r.err THEN dev ELSE <<[mac |-> r.mac, unit |-> r.unit]>>
      /\ lastOp' = [op |-> "new", err |-> r.err, mac |-> mac, unit |-> unit]
      /\ response' = NoResponse
      /\ UNCHANGED <<variant, gateway, now>>

NextConstruct == \E mac \in RawMacs, unit \in RawUnits : Construct(mac, unit)

SpecConstruct == InitConstruct /\ [][NextConstruct]_vars

\* ============================================================== properties
\* device i is found under its own unit and under its own MAC address in gw
LookupsReturn(gw, i) ==
  /\ getDevice(gw, TRUE, dev[i].unit) = i
  /\ getDevice(gw, FALSE, dev[i].mac) = i

\* the step being taken handles operation `op` for device i
Handled(op, i) == lastOp'.op = op /\ lastOp'.dev = i

\* the hex digits of a MAC address as a caller spelled it; two spellings
\* with two-digit groups name the same address iff their digits agree
HexDigitsOf(s) == SelectSeq(toUpperCase(s), LAMBDA c : c \in HexUpper)
SameAddressPairs ==
  {p \in DevIds \X DevIds : HexDigitsOf(CtorArgs[p[1]].mac) = HexDigitsOf(CtorArgs[p[2]].mac)}
SameAddress(i, j) == <<i, j>> \in SameAddressPairs

\* C1: after addDevice(d) succeeds, the lookup by d.unit and the lookup by
\* d.mac both return d, and they keep returning d over every later step
\* that is not removeDevice(d) (adds and removes of other devices included).
C1_LookupAfterAdd ==
  [][\A i \in DevIds :
       /\ (Handled("addDevice", i) /\ ~lastOp'.err) => LookupsReturn(gateway', i)
       /\ (LookupsReturn(gateway, i) /\ ~Handled("removeDevice", i))
            => LookupsReturn(gateway', i)]_vars

\* a second device has just been added while device i stayed registered
C1_Witness ==
  \E i, j \in DevIds :
    /\ i # j
    /\ lastOp = [op |-> "addDevice", dev |-> j, err |-> FALSE]
    /\ LookupsReturn(gateway, i)
    /\ LookupsReturn(gateway, j)

\* the unit of device i is taken by a registered device with another MAC
UnitTaken(i) ==
  \E j \in DevIds \ {i} :
    /\ getDevice(gateway, TRUE, dev[i].unit) = j
    /\ dev[j].mac # dev[i].mac

\* C2: addDevice of a device whose unit is used by a different registered
\* device (different MAC) throws and leaves the registry as it was: the
\* device set, the unit index, the MAC index and the listeners.
C2_DuplicateUnitRejected ==
  [][\A i \in DevIds :
       (Handled("addDevice", i) /\ UnitTaken(i))
         => (lastOp'.err /\ gateway' = gateway)]_vars

\* an add was refused for the unit alone: the MAC of the device is free
C2_Witness ==
  /\ lastOp.op = "addDevice"
  /\ lastOp.err
  /\ UnitTaken(lastOp.dev)
  /\ dev[lastOp.dev].mac \notin DOMAIN gateway.macToDevice

\* the address of device i, however spelled, is the address of a different
\* registered device, and the unit of device i is free
AddressTaken(i) ==
  /\ dev[i].unit \notin DOMAIN gateway.unitToDevice
  /\ \E j \in DevIds \ {i} : SameAddress(i, j) /\ LookupsReturn(gateway, j)

\* C3: addDevice of a device whose MAC address, whatever its letter case
\* and separators, is the address of a different registered device throws
\* and leaves the registry as it was, even when its unit is unused.
C3_DuplicateMacRejected ==
  [][\A i \in DevIds :
       (Handled("addDevice", i) /\ AddressTaken(i))
         => (lastOp'.err /\ gateway' = gateway)]_vars

\* an add was refused for a MAC that was spelled differently from the
\* registered one
C3_Witness ==
  /\ lastOp.op = "addDevice"
  /\ lastOp.err
  /\ AddressTaken(lastOp.dev)
  /\ \E j \in DevIds \ {lastOp.dev} :
       /\ LookupsReturn(gateway, j)
       /\ SameAddress(lastOp.dev, j)
       /\ CtorArgs[j].mac # CtorArgs[lastOp.dev].mac

\* C4: addDevice(d) of a device that is already registered throws nothing
\* and leaves the device set and both indexes unchanged, however often it
\* is repeated.
C4_RepeatedAddIsNoOp ==
  [][\A i \in DevIds :
       (Handled("addDevice", i) /\ LookupsReturn(gateway, i))
         => (~lastOp'.err /\ gateway' = gateway)]_vars

\* C5: after removeDevice(d) neither lookup returns d, a request to d.unit
\* is answered IllegalDataAddress and d can be registered again; when d was
\* not registered the call changes nothing; it never throws.
C5_RemoveUnregisters ==
  [][\A i \in DevIds :
       Handled("removeDevice", i) =>
         /\ ~lastOp'.err
         /\ getDevice(gateway', TRUE, dev[i].unit) # i
         /\ getDevice(gateway', FALSE, dev[i].mac) # i
         /\ LookupsReturn(gateway, i) =>
              /\ \A request \in Requests :
                   handleModbusRequest(variant, gateway', dev, dev[i].unit, request, now).code
                     = "IllegalDataAddress"
              /\ ~addDevice(variant, gateway', i, dev[i]).err
         /\ ~LookupsReturn(gateway, i) => gateway' = gateway]_vars

\* the devices a map holds
Range(f) == {f[k] : k \in DOMAIN f}

\* C6: in every reachable state the device set, the unit index and the MAC
\* index have the same size and hold the same devices, each device under
\* its own unit and its own MAC.
C6_RegistryConsistent ==
  /\ Cardinality(DOMAIN gateway.unitToDevice) = Cardinality(gateway.devices)
  /\ Cardinality(DOMAIN gateway.macToDevice) = Cardinality(gateway.devices)
  /\ Range(gateway.unitToDevice) = gateway.devices
  /\ Range(gateway.macToDevice) = gateway.devices
  /\ \A i \in gateway.devices : LookupsReturn(gateway, i)

\* the configured timeout that applies to device i
Timeout(i) == IF variant = "A" THEN dev[i].deviceTimeout ELSE gateway.deviceTimeout

\* device i has no model yet or its last report is older than the timeout
Stale(i) == dev[i].model = Null \/ now - dev[i].lastSeenAt > Timeout(i)

\* the last step answered a request; its target device; its kind
Answered == lastOp.op = "request"
Target == getDevice(gateway, TRUE, response.unit)
IsRead == response.request.functionCode = ReadHoldingRegisters

\* C7: a request to a unit without a registered device is answered
\* IllegalDataAddress; a Read Holding Registers request to a registered
\* device without a model or with a last report older than the timeout is
\* answered GatewayTargetDeviceFailedToRespond; an answer of the device's
\* read (data, or its own IllegalDataAddress) is given only for a
\* registered device that is available.
C7_RoutingErrors ==
  Answered =>
    /\ Target = NoDevice => response.code = "IllegalDataAddress"
    /\ (Target # NoDevice /\ IsRead /\ Stale(Target))
         => response.code = "GatewayTargetDeviceFailedToRespond"
    /\ (response.code = "data" \/ (response.code = "IllegalDataAddress" /\ Target # NoDevice))
         => /\ Target # NoDevice
            /\ IsRead
            /\ ~Stale(Target)
            /\ response.code = handleReadHoldingRegistersRequest(dev[Target], response.request).code
            /\ response.data = handleReadHoldingRegistersRequest(dev[Target], response.request).data

\* a read of a device that has a model and was last seen too long ago
C7_Witness ==
  /\ Answered
  /\ Target # NoDevice
  /\ IsRead
  /\ dev[Target].model # Null
  /\ now - dev[Target].lastSeenAt > Timeout(Target)
  /\ response.code = "GatewayTargetDeviceFailedToRespond"

\* C8: handling a request, whatever the answer, leaves the registry (device
\* set, both indexes, listeners, connections) and every device (model,
\* state, register buffer, lastSeenAt) unchanged.
C8_RequestChangesNothing ==
  [][lastOp'.op = "request" => (gateway' = gateway /\ dev' = dev)]_vars

\* a device that failed to respond is still registered and still holds its
\* register buffer
C8_Witness ==
  /\ Answered
  /\ response.code = "GatewayTargetDeviceFailedToRespond"
  /\ Target # NoDevice
  /\ LookupsReturn(gateway, Target)
  /\ dev[Target].hasBuffer
  /\ gateway.connections # {}

\* C9 as stated: unknown unit, then function code, then availability; a
\* function code other than Read Holding Registers sent to a registered
\* device is answered IllegalFunctionCode whether or not it is available.
C9_FunctionCodeBeforeAvailability ==
  Answered =>
    /\ Target = NoDevice => response.code = "IllegalDataAddress"
    /\ (Target # NoDevice /\ ~IsRead) => response.code = "IllegalFunctionCode"
    /\ (Target # NoDevice /\ IsRead /\ Stale(Target))
         => response.code = "GatewayTargetDeviceFailedToRespond"

\* C9 amended: unknown unit, then availability, then function code; a
\* function code other than Read Holding Registers sent to a registered
\* device is answered IllegalFunctionCode only when the device is
\* available and GatewayTargetDeviceFailedToRespond when it is not.
C9_AvailabilityBeforeFunctionCode ==
  Answered =>
    /\ Target = NoDevice => response.code = "IllegalDataAddress"
    /\ (Target # NoDevice /\ Stale(Target))
         => response.code = "GatewayTargetDeviceFailedToRespond"
    /\ (Target # NoDevice /\ ~Stale(Target) /\ ~IsRead)
         => response.code = "IllegalFunctionCode"

\* an unsupported function code sent to a registered, unavailable device
C9_Witness ==
  /\ Answered
  /\ Target # NoDevice
  /\ ~IsRead
  /\ Stale(Target)
  /\ response.code = "GatewayTargetDeviceFailedToRespond"

\* the report carries manufacturer specific data, hence a model
CarriesModel(report) ==
  \E k \in DOMAIN report.data : report.data[k].type = "ManufacturerSpecificData"

\* C10: a device is unavailable before its first report; it is available
\* right after a report that carries a recognized model; with a model it
\* is available exactly while the time since its last report does not
\* exceed the timeout (equal is still available).
C10_AvailabilityLifecycle ==
  [][/\ \A i \in DevIds :
          (dev[i].model = Null /\ dev[i].lastSeenAt = 0)
            => ~isAvailable(variant, dev[i], gateway.deviceTimeout, now)
     /\ \A report \in Reports :
          (/\ Report(report)
           /\ getDevice(gateway, FALSE, report.address) # NoDevice
           /\ CarriesModel(report))
            => isAvailable(variant, dev'[getDevice(gateway, FALSE, report.address)],
                           gateway'.deviceTimeout, now')
     /\ \A i \in DevIds :
          dev[i].model # Null
            => (isAvailable(variant, dev[i], gateway.deviceTimeout, now)
                  <=> now - dev[i].lastSeenAt <= Timeout(i))]_vars


\* --------------------------------------------------------------------- C11
\* the register buffer of the single device and the window of the last read
TheBuffer == dev[TheDevice].buffer
WasRead == lastOp.op = "read" /\ dev[TheDevice].hasBuffer
Window == response.request

\* the bytes of buf from index `from` up to, not including, index `to`
BytesBetween(buf, from, to) == [k \in 1 .. (to - from) |-> buf[from + k]]

\* C11: a read on a device whose buffer has L bytes is answered
\* IllegalDataAddress whenever the ending index exceeds L, whatever the
\* starting index, and whenever the starting index is at or beyond L;
\* every other read is answered with exactly the bytes from the starting
\* index up to, not including, the ending index.
C11_ReadWindow ==
  WasRead =>
    IF Window.endingIndex > Len(TheBuffer) \/ Window.startingIndex >= Len(TheBuffer)
      THEN response.code = "IllegalDataAddress"
      ELSE /\ response.code = "data"
           /\ response.data = BytesBetween(TheBuffer, Window.startingIndex, Window.endingIndex)

\* a read of the extension registers that ends exactly at the end of the buffer
C11_Witness ==
  /\ WasRead
  /\ Window.startingIndex = MSD_FIRST_REGISTER_INDEX + 2
  /\ Window.endingIndex = Len(TheBuffer)
  /\ response.code = "data"
  /\ \E k \in DOMAIN response.data : response.data[k] # 0


\* --------------------------------------------------------------------- C12
\* report r was applied without an error by the last step
JustApplied(r) == lastOp.op = "apply" /\ lastOp.report = r /\ ~lastOp.err

\* C12: applying again the report that was applied last (same rssi, same
\* EIR values, same model) leaves the register buffer and the stored state
\* as they were after the first application.
C12_ReapplyChangesNothing ==
  [][\A r \in DeviceReports :
       JustApplied(r) /\ Apply(r) =>
         /\ dev'[TheDevice].buffer = dev[TheDevice].buffer
         /\ dev'[TheDevice].state = dev[TheDevice].state]_vars


\* --------------------------------------------------------------------- C13
\* the unsigned 16-bit big-endian value held by the two bytes at `offset`
\* of the register buffer
UInt16At(offset) == 256 * TheBuffer[offset + 1] + TheBuffer[offset + 2]

\* byte offset of register 17
TemperatureOffset == MSD_FIRST_REGISTER_INDEX + 2

\* report r was applied without an error as the first report of the device
FirstApplied(r) == JustApplied(r) /\ now = StartTime + 1

\* C13 as stated: after a CareSensor report with temperature 21.34,
\* register 17 reads 2134; after a first report without temperature,
\* register 17 reads 0x00FF.
C13_TemperatureRegister ==
  /\ JustApplied(CareSensorX) => UInt16At(TemperatureOffset) = 2134
  /\ FirstApplied(CareSensorNoTemperatureX) => UInt16At(TemperatureOffset) = 255

\* C13 amended: after a CareSensor report with temperature 21.34,
\* register 17 reads 2134; after a first report without temperature,
\* register 17 reads 0x00FF multiplied by 100, the scaling of every
\* temperature, so that dividing the register by 100 gives 0xFF.
C13_TemperatureRegisterScaled ==
  /\ JustApplied(CareSensorX) => UInt16At(TemperatureOffset) = 2134
  /\ FirstApplied(CareSensorNoTemperatureX) =>
       UInt16At(TemperatureOffset) = 100 * 255

\* a first report without temperature was applied
C13_Witness ==
  /\ FirstApplied(CareSensorNoTemperatureX)
  /\ dev[TheDevice].hasBuffer
  /\ Get(dev[TheDevice].state, "temperature") = Undefined


\* --------------------------------------------------------------------- C14
\* the unsigned 32-bit big-endian value held by the four bytes at `offset`
\* of the register buffer
UInt32At(offset) == 65536 * UInt16At(offset) + UInt16At(offset + 2)

\* byte offset of registers 18-19 (total) of an EnergyMeter
TotalOffset == MSD_FIRST_REGISTER_INDEX + 4

\* C14: after an EnergyMeter report with unit 2 (count) and total 500,
\* registers 18-19 read 500 (no scaling); after an EnergyMeter report with
\* unit 0 and total 5.00, registers 18-19 read 500 (multiplied by 100).
C14_EnergyMeterScaling ==
  /\ JustApplied(EnergyMeterCountX) => UInt32At(TotalOffset) = 500
  /\ JustApplied(EnergyMeterX) => UInt32At(TotalOffset) = 500


\* --------------------------------------------------------------------- C15
\* the bytes of the extension the register map of a model lists: 1 register
\* for a CareRelay, 12 registers for an EnergyMeter and for every model of
\* the CareSensor family
ListedExtension(model) ==
  IF StrictEq(model, DeviceModel("CareRelay")) THEN 2 * 1 ELSE 2 * 12

\* C15: a device that has a model has a register buffer of exactly the
\* 32 bytes of the common header plus the extension of that model: 34 bytes
\* for a CareRelay, 56 bytes for an EnergyMeter and for every model of the
\* CareSensor family (PT and PHT included).
C15_BufferLength ==
  dev[TheDevice].model # Null =>
    /\ dev[TheDevice].hasBuffer
    /\ Len(TheBuffer) = MSD_FIRST_REGISTER_INDEX + ListedExtension(dev[TheDevice].model)


\* --------------------------------------------------------------------- C16
\* C16: after any sequence of reports the device has a register buffer if
\* and only if it has a model; it has neither before any report, and it has
\* both after a report that carries manufacturer data.
C16_BufferIffModel ==
  /\ dev[TheDevice].hasBuffer <=> dev[TheDevice].model # Null
  /\ now = StartTime => ~dev[TheDevice].hasBuffer
  /\ lastOp.op = "apply" /\ CarriesModel(lastOp.report) => dev[TheDevice].hasBuffer

\* a report without manufacturer data applied to a device that has a model
C16_Witness ==
  /\ JustApplied(ScanResponseX)
  /\ dev[TheDevice].hasBuffer
  /\ dev[TheDevice].model # Null


\* --------------------------------------------------------------------- C17
\* the six bytes of the MAC address 00:12:6F:6D:3E:06 of the device
TheMacBytes == <<0, 18, 111, 109, 62, 6>>

\* byte offset of register 11 (model)
ModelOffset == 6 + 16

Addressee(report) == getDevice(gateway, FALSE, report.address)

\* C18: a report whose address matches no registered device changes no
\* device and no registry entry, and it is dropped or, when the gateway
\* holds a caller's unknown-device handler, passed to it exactly once; a
\* report whose address matches a registered device is applied to that
\* device only, and the handler is not called.
C18_UnknownDeviceReports ==
  [][\A c \in Connections, report \in Reports :
       c \in gateway.connections /\ Data(c, report) =>
         /\ gateway' = gateway
         /\ Addressee(report) = NoDevice =>
              /\ dev' = dev
              /\ lastOp'.hook = (IF gateway.handleUnknownDevice THEN 1 ELSE 0)
         /\ Addressee(report) # NoDevice =>
              /\ lastOp'.hook = 0
              /\ lastOp'.dev = Addressee(report)
              /\ \A j \in DevIds \ {Addressee(report)} : dev'[j] = dev[j]
              /\ dev'[Addressee(report)] =
                   handleAdvertisingReport(variant, dev[Addressee(report)], report, now).d]_vars

\* a report of an unknown device was passed to the caller's handler while
\* a device was registered
C18_Witness ==
  /\ lastOp.op = "data"
  /\ lastOp.routed
  /\ lastOp.dev = NoDevice
  /\ lastOp.hook = 1
  /\ gateway.macToDevice # <<>>


\* --------------------------------------------------------------------- C19
\* C19: after gateway.destroy the registry holds no device (no unit and no
\* MAC address finds one) and no connection, a chunk emitted afterwards by
\* a connection changes nothing, and the connection objects received no
\* call other than the removal of the gateway's 'data' listener.
C19_Teardown ==
  [][/\ (\E recursive \in BOOLEAN : Destroy(recursive)) =>
          /\ gateway'.devices = {}
          /\ DOMAIN gateway'.unitToDevice = {}
          /\ DOMAIN gateway'.macToDevice = {}
          /\ gateway'.connections = {}
          /\ \A call \in lastOp'.calls : call[2] = "removeListener"
     /\ \A c \in Connections, report \in Reports :
          lastOp.op = "destroy" /\ Data(c, report) => dev' = dev /\ ~lastOp'.routed]_vars


\* --------------------------------------------------------------------- C20
\* s[i .. ] is `groups` groups of two hexadecimal digits, of either case,
\* with at most one ':' or '-' between neighbouring groups
RECURSIVE GroupsOfTwo(_, _, _)
GroupsOfTwo(s, i, groups) ==
  IF groups = 0 THEN i = Len(s) + 1
  ELSE /\ i + 1 <= Len(s)
       /\ toUpperCaseChar(s[i]) \in HexUpper
       /\ toUpperCaseChar(s[i + 1]) \in HexUpper
       /\ \/ GroupsOfTwo(s, i + 2, groups - 1)
          \/ /\ groups > 1
             /\ i + 2 <= Len(s)
             /\ s[i + 2] \in {":", "-"}
             /\ GroupsOfTwo(s, i + 3, groups - 1)

\* an integer between 0 and 255
IsUnit(x) == IsNumber(x) /\ x.v % 100 = 0 /\ x.v >= 0 /\ x.v <= 100 * UnitMax

\* six groups of two upper-case hexadecimal digits separated by colons
IsCanonicalMac(s) ==
  /\ Len(s) = 17
  /\ \A k \in 1 .. 17 : IF k % 3 = 0 THEN s[k] = ":" ELSE s[k] \in HexUpper

\* C20: constructing a Device fails, and creates no device, when the mac
\* is not six groups of two hexadecimal digits optionally separated by ':'
\* or '-', or when the unit is not an integer between 0 and 255; every
\* device that was constructed has a canonical upper-case colon-separated
\* mac and an integer unit between 0 and 255.
C20_ConstructorValidation ==
  /\ lastOp.op = "new" /\ ~(GroupsOfTwo(lastOp.mac, 1, 6) /\ IsUnit(lastOp.unit)) =>
       lastOp.err /\ dev = <<>>
  /\ \A k \in DOMAIN dev : IsCanonicalMac(dev[k].mac) /\ IsUnit(dev[k].unit)


\* --------------------------------------------------------------------- C21
\* the value a report carries for a layout-stable field; Undefined when it
\* carries none
CarriedBy(report, field) ==
  IF field = "rssi" THEN report.rssi
  ELSE LET type == IF field = "localName" THEN "LocalNameComplete" ELSE "TxPowerLevel"
           at == {k \in DOMAIN report.data : report.data[k].type = type}
       IN  IF at = {} THEN Undefined
           ELSE Get(report.data[CHOOSE k \in at : \A j \in at : j <= k].props, "value")

\* the signed 16-bit big-endian value held by the two bytes at `offset`
Int16At(offset) ==
  IF UInt16At(offset) >= 32768 THEN UInt16At(offset) - 65536 ELSE UInt16At(offset)

\* the 16 bytes of a local name: its characters, then zeros
NameBytes(name) ==
  [k \in 1 .. 16 |-> IF name.t = "string" /\ k <= Len(name.v) THEN charCodeAt(name.v[k]) ELSE 0]

\* C21: when a report changes the model of the device, the fields rssi,
\* localName and txPowerLevel hold afterwards the value this report
\* carried, or else the value stored before the report, in the state and
\* in the header registers (local name: bytes 6-21, rssi: register 12,
\* tx power level: register 13).
C21_StableFieldsSurviveModelChange ==
  [][\A r \in DeviceReports :
       Apply(r) /\ ~lastOp'.err /\ dev'[TheDevice].model # dev[TheDevice].model =>
         LET before == dev[TheDevice].state
             after == dev'[TheDevice].state
             kept(field) == IF CarriedBy(r, field) # Undefined
                              THEN CarriedBy(r, field) ELSE Get(before, field)
             buf == dev'[TheDevice].buffer
         IN  /\ \A field \in {"rssi", "localName", "txPowerLevel"} :
                  Get(after, field) = kept(field)
             /\ kept("localName").t = "string" =>
                  BytesBetween(buf, 6, 6 + Len(kept("localName").v)) =
                    SubSeq(NameBytes(kept("localName")), 1, Len(kept("localName").v))
             /\ IsNumber(kept("rssi")) =>
                  256 * buf[25] + buf[26] = (ToInteger(kept("rssi")) + 65536) % 65536]_vars


\* --------------------------------------------------------------------- C22
\* the manufacturer data a report carries
MsdOf(report) ==
  report.data[CHOOSE k \in DOMAIN report.data :
                report.data[k].type = "ManufacturerSpecificData"].props

\* the CareSensor reports that carry a whole position
PositionReports == {SensorAtRestX, SensorLowBatteryX, SensorLaterX, SensorMovedX}

\* byte offset of register 20 (position x)
PositionOffset == 2 * 20

\* C22: after any sequence of reports a CareSensor holds the last reported
\* position x, y, z in registers 20-22 (bytes 40-45), the battery level in
\* register 23, the battery voltage times 100 in register 24, the groups
\* in register 25 and the time, in seconds, in registers 26-27, whichever
\* fields the last report changed.
C22_FixedSensorRegisters ==
  \A r \in PositionReports :
    JustApplied(r) =>
      /\ Len(TheBuffer) >= PositionOffset + 16
      /\ UInt16At(PositionOffset) = ToInteger(Prop(MsdOf(r).position, "x"))
      /\ UInt16At(PositionOffset + 2) = ToInteger(Prop(MsdOf(r).position, "y"))
      /\ UInt16At(PositionOffset + 4) = ToInteger(Prop(MsdOf(r).position, "z"))
      /\ UInt16At(PositionOffset + 6) = ToInteger(MsdOf(r).batteryLevel)
      /\ UInt16At(PositionOffset + 8) = MsdOf(r).batteryVoltage.v
      /\ UInt16At(PositionOffset + 10) = ToInteger(MsdOf(r).groups)
      /\ UInt32At(PositionOffset + 12) \in
           {MsdOf(s).time.v \div 1000 : s \in PositionReports}
             \cup {(MsdOf(s).time.v + 500) \div 1000 : s \in PositionReports}


\* --------------------------------------------------------------------- C23
\* C23: after any sequence of reports registers 3-10 (bytes 6-21) hold
\* exactly the current local name, cut to 16 bytes and padded with zeros
\* to 16 bytes; no byte of an earlier, longer name remains.
C23_LocalNameRegisters ==
  dev[TheDevice].hasBuffer =>
    BytesBetween(TheBuffer, 6, 6 + 16) = NameBytes(Get(dev[TheDevice].state, "localName"))


\* --------------------------------------------------------------------- C24
\* some key has a different value in the stored object than in the incoming
\* one; a key that only one of them has counts
KeysDiffer(stored, incoming) ==
  \E key \in Keys(stored) \cup Keys(incoming) :
    ~StrictEq(Prop(incoming, key), Prop(stored, key))

\* C24: an incoming position is taken as changed when no position is
\* stored or when some key differs between the stored and the incoming
\* object, a key missing from the incoming object included; the stored
\* position is then the whole incoming object.
C24_CompositeChange ==
  [][\A r \in SensorReports :
       Apply(r) /\ ~lastOp'.err /\ Get(MsdOf(r), "position") # Undefined =>
         LET stored == Get(dev[TheDevice].state, "position")
             incoming == Get(MsdOf(r), "position")
         IN  (stored = Undefined \/ KeysDiffer(stored, incoming)) =>
               Get(dev'[TheDevice].state, "position") = incoming]_vars


\* --------------------------------------------------------------------- C25
\* byte offset of registers 26-27 (time)
TimeOffset == 2 * 26

\* a millisecond timestamp in seconds, cut or rounded
SecondsOf(time) == {time.v \div 1000, (time.v + 500) \div 1000}

\* C25: after a CareSensor report that carries a time, the stored time is
\* the time of that report, also when another time was stored before, and
\* registers 26-27 hold it in seconds.
C25_LatestTime ==
  \A r \in PositionReports :
    JustApplied(r) =>
      /\ Get(dev[TheDevice].state, "time") = MsdOf(r).time
      /\ Len(TheBuffer) >= TimeOffset + 4
      /\ UInt32At(TimeOffset) \in SecondsOf(MsdOf(r).time)


\* --------------------------------------------------------------------- C26
\* C26: registers 26-27 hold the reported millisecond timestamp in whole
\* seconds, cut and not rounded, also for a millisecond part of 500 or
\* more; they hold 0 when no time is known.
C26_TimeTruncated ==
  /\ \A r \in PositionReports :
       FirstApplied(r) =>
         /\ Len(TheBuffer) >= TimeOffset + 4
         /\ UInt32At(TimeOffset) = MsdOf(r).time.v \div 1000
  /\ FirstApplied(CareSensorX) =>
       /\ Len(TheBuffer) >= TimeOffset + 4
       /\ UInt32At(TimeOffset) = 0


\* --------------------------------------------------------------------- C27
\* the report without its EIR entries of a type the Device does not handle
RECURSIVE HandledEntries(_)
HandledEntries(data) ==
  IF Len(data) = 0 THEN <<>>
  ELSE IF Head(data).type \in {"LocalNameComplete", "TxPowerLevel", "ManufacturerSpecificData"}
         THEN <<Head(data)>> \o HandledEntries(Tail(data))
         ELSE HandledEntries(Tail(data))
WithoutUnknownEntries(report) == [report EXCEPT !.data = HandledEntries(report.data)]
HasMsd(report) == \E k \in 1 .. Len(report.data) : report.data[k].type = "ManufacturerSpecificData"
HeaderFields == {"rssi", "localName", "txPowerLevel"}

\* C27: a report without a ManufacturerSpecificData entry is applied without
\* an error on any device, also one that never had a model, and leaves the
\* model, the alarms, rtto and the model-specific fields as they were (no
\* buffer appears on a device without a model); an EIR entry of a type that
\* is not handled changes nothing about what a report does.
C27_NoManufacturerData ==
  [][\A r \in DeviceReports :
       Apply(r) =>
         /\ LET plain == handleAdvertisingReport(variant, dev[TheDevice],
                                                 WithoutUnknownEntries(r), now)
            IN  dev'[TheDevice] = plain.d /\ lastOp'.err = plain.threw
         /\ ~HasMsd(r) =>
              /\ ~lastOp'.err
              /\ dev'[TheDevice].model = dev[TheDevice].model
              /\ dev'[TheDevice].hasBuffer = dev[TheDevice].hasBuffer
              /\ \A key \in (DOMAIN dev[TheDevice].state \cup DOMAIN dev'[TheDevice].state)
                              \ HeaderFields :
                   Get(dev'[TheDevice].state, key) = Get(dev[TheDevice].state, key)]_vars


\* --------------------------------------------------------------------- C28
\* C28: every report applied by a registered device sets its lastSeenAt to
\* the current time, whatever the report carries; when the device has a
\* model it is available right after the report, and no request to its unit
\* is answered with GatewayTargetDeviceFailedToRespond.
C28_SelfHealing ==
  [][\A report \in Reports :
       LET device == getDevice(gateway, FALSE, report.address)
       IN  Report(report) /\ device # NoDevice =>
             /\ dev'[device].lastSeenAt = now
             /\ dev[device].model # Null =>
                  /\ isAvailable(variant, dev'[device], gateway.deviceTimeout, now)
                  /\ \A request \in Requests :
                       handleModbusRequest(variant, gateway, dev', dev[device].unit,
                                           request, now).code
                         # "GatewayTargetDeviceFailedToRespond"]_vars


\* --------------------------------------------------------------------- C29
\* the reports of an event that carry the address of device i, in order
ReportsFor(i, reports) == SelectSeq(reports, LAMBDA r : r.address = dev[i].mac)

\* device.handleAdvertisingReport(r) for each report in turn, as a sequence
\* of statements: a call that throws is the last one
RECURSIVE AppliedInTurn(_, _)
AppliedInTurn(d, reports) ==
  IF Len(reports) = 0 THEN d
  ELSE LET r == handleAdvertisingReport(variant, d, Head(reports), now)
       IN  IF r.threw THEN r.d ELSE AppliedInTurn(r.d, Tail(reports))

\* what a report carries for a key of the state
Carried(report, key) ==
  IF key \in HeaderFields THEN CarriedBy(report, key)
  ELSE IF HasMsd(report) THEN Get(MsdOf(report), key)
  ELSE Undefined

\* the last of the reports that carries the key
LastCarrying(reports, key) ==
  LET at == {k \in 1 .. Len(reports) : Carried(reports[k], key) # Undefined}
  IN  reports[CHOOSE k \in at : \A j \in at : j <= k]

StateKeys ==
  {"rssi", "localName", "txPowerLevel", "rtto", "alarms", "input", "output", "temperature",
   "humidity", "position", "batteryLevel", "batteryVoltage", "groups", "time",
   "unit", "constant", "sum", "average"}

\* C29: the reports of one advertising event are routed in their order and
\* the events of a connection in the order of their chunks: after an event
\* every registered device is what applying its reports of the event one
\* after the other makes of it, and a field that several of its reports
\* carry has the value of the last of them.
C29_DeliveryOrder ==
  [][\A c \in Connections, reports \in Events :
       DataEvent(c, reports) /\ c \in gateway.connections =>
         \A i \in DevIds :
           getDevice(gateway, FALSE, dev[i].mac) = i =>
             /\ dev'[i] = AppliedInTurn(dev[i], ReportsFor(i, reports))
             /\ \A key \in StateKeys :
                  Cardinality({k \in 1 .. Len(ReportsFor(i, reports)) :
                                 Carried(ReportsFor(i, reports)[k], key) # Undefined}) > 1 =>
                    Get(dev'[i].state, key)
                      = Carried(LastCarrying(ReportsFor(i, reports), key), key)]_vars


\* --------------------------------------------------------------------- C30
\* C30: a chunk a connection emits is decoded and routed exactly once when
\* the connection is added, however often addConnection was called for it,
\* and not at all (no decoding, no device change) when it is not added or
\* was removed; addConnection of an added connection and removeConnection of
\* an absent one change nothing.
C30_ConnectionLifecycle ==
  [][/\ \A c \in Connections, report \in Reports :
          Data(c, report) =>
            IF c \in gateway.connections
              THEN /\ lastOp'.times = 1
                   /\ dev' = gatewayHandleAdvertisingReport(variant, gateway, dev,
                                                            report, now).devs
              ELSE /\ lastOp'.times = 0
                   /\ lastOp'.hook = 0
                   /\ dev' = dev
     /\ \A c \in Connections :
          /\ AddConnection(c) =>
               /\ c \in gateway'.connections
               /\ c \in gateway.connections => gateway' = gateway
          /\ RemoveConnection(c) =>
               /\ c \notin gateway'.connections
               /\ c \notin gateway.connections => gateway' = gateway]_vars

\* a chunk of a connection that is not added was left alone after an
\* earlier chunk of an added connection had reached a device
C30_Witness ==
  /\ lastOp.op = "data"
  /\ lastOp.times = 0
  /\ gateway.connections = {}
  /\ \E i \in DevIds : dev[i].lastSeenAt # 0 \/ dev[i].changes # EmptyObject


\* --------------------------------------------------------------------- C31
\* the reports the decoder makes of a chunk
ReportsOf(data) ==
  btHciDecode(IF gateway.hexEncoded THEN fromHex(data) ELSE data).reports

\* C31: when the unknown-device handler removes the connection while one of
\* its chunks is handled, every report of that chunk is still routed, in
\* order (each registered device is what applying its reports of the chunk
\* in turn makes of it), nothing throws, the connection is removed with its
\* listener and buffer, and a further chunk of it runs nothing.
C31_RemovalInsideHandler ==
  [][\A c \in ChunkConnections :
       \A data \in Chunks(gateway.hexEncoded) :
         Chunk(c, data, TRUE) /\ c \in gateway.connections /\ lastOp'.hook > 0 =>
           /\ ~lastOp'.err
           /\ lastOp'.routed = Len(ReportsOf(data))
           /\ \A i \in DevIds :
                dev'[i] = IF getDevice(gateway, FALSE, dev[i].mac) = i
                            THEN AppliedInTurn(dev[i], ReportsFor(i, ReportsOf(data)))
                            ELSE dev[i]
           /\ gateway' = removeConnection(gateway, c)
           /\ c \notin gateway'.connections
           /\ ListenerCount(gateway', c) = 0
           /\ \A next \in Chunks(gateway.hexEncoded) :
                onConnectionData(variant, gateway', dev', now, c, next, FALSE)
                  = handled(gateway', dev', FALSE, <<>>, 0, 0)]_vars

\* the handler removed the connection at the second of three reports and
\* the third reached its device
C31_Witness ==
  /\ lastOp.op = "chunk"
  /\ lastOp.removes
  /\ lastOp.hook = 1
  /\ lastOp.routed = 3
  /\ lastOp.connection \notin gateway.connections
  /\ \E i \in DevIds :
       /\ getDevice(gateway, FALSE, AddressX) = i
       /\ Get(dev[i].state, "localName") = Str(<<"i","N","o","d","e">>)


\* --------------------------------------------------------------------- C32
\* the bytes of a chunk: the chunk itself, or what its hexadecimal text
\* stands for
BytesOf(data) == IF gateway.hexEncoded THEN fromHex(data) ELSE data

\* C32: every added connection has a reassembly buffer of its own, and it
\* is empty after every step, whatever a chunk decoded to; the bytes the
\* decoder gets for a chunk of an added connection are the bytes of that
\* chunk and nothing else.
C32_ReassemblyBuffers ==
  [][/\ DOMAIN gateway'.buffers = gateway'.connections
     /\ \A c \in DOMAIN gateway'.buffers : gateway'.buffers[c] = <<>>
     /\ lastOp'.op = "chunk" /\ lastOp'.connection \in gateway.connections =>
          lastOp'.decoded = BytesOf(lastOp'.data)]_vars

\* the decoder threw on a chunk while both connections were added and a
\* device had been seen through an earlier chunk
C32_Witness ==
  /\ variant = "A"
  /\ lastOp.op = "chunk"
  /\ lastOp.err
  /\ lastOp.decoded # <<>>
  /\ gateway.connections = ChunkConnections
  /\ \E i \in DevIds : dev[i].lastSeenAt # 0


\* --------------------------------------------------------------------- C33
\* C33: gateway.handleModbusRequest calls respond exactly once before it
\* returns, and does not throw, for every unit, function code, window and
\* availability; the one call carries an exception code and no data, or
\* data, and it is the response the caller got.
C33_RespondsOnce ==
  [][lastOp'.op = "request" =>
       LET r == respondCalls(variant, gateway, dev, response'.unit, response'.request, now)
       IN  /\ ~r.threw
           /\ Len(r.calls) = 1
           /\ r.calls[1].code = response'.code
           /\ r.calls[1].data = response'.data
           /\ r.calls[1].code # "data" =>
                /\ r.calls[1].data = <<>>
                /\ r.calls[1].code \in {"IllegalDataAddress", "IllegalFunctionCode",
                                         "GatewayTargetDeviceFailedToRespond"}]_vars

\* a request to a registered device that has a model and is stale was
\* answered
C33_Witness ==
  /\ lastOp.op = "request"
  /\ lastOp.dev # NoDevice
  /\ dev[lastOp.dev].model # Null
  /\ response.code = "GatewayTargetDeviceFailedToRespond"
  /\ response.request.functionCode # ReadHoldingRegisters


\* --------------------------------------------------------------------- C34
\* C34: the data of a delivered read response are the bytes the window had
\* when the response was made: a report applied to the device afterwards
\* changes none of them.
C34_ResponseIsSnapshot ==
  [][lastOp'.op = "apply" /\ response.code = "data" => response'.data = response.data]_vars

====
